---- MODULE Spec2Model ----
(***************************************************************************)
(* Model of the request-admission pipeline of gobfwebservice: the          *)
(* RateLimit middleware (middleware/ratelimiter.go), the error helpers it  *)
(* calls (server/error.go) and the handler it wraps.                       *)
(*                                                                         *)
(* Every in-flight request is a goroutine p.  Its position in the handler  *)
(* closure is pc[p]; one action is one statement group of the closure, so  *)
(* that requests interleave exactly where the Go scheduler lets them.      *)
(* Time is the monotonic clock read by time.Now(), in whole seconds.       *)
(***************************************************************************)
EXTENDS Integers, Sequences, FiniteSets, TLC

\* ------------------------------------------------------------- bounds
\* Number of goroutines serving requests at the same time.
NProcs == 2
\* Total number of requests issued in one behaviour.
MaxIssued == 2
\* Last instant of the clock.
MaxTime == 4
\* Number of requests served one after the other.
MaxServed == 5
\* Number of calls of RateLimit, and of requests served by the handlers
\* their Middleware values wrap.
MaxCalls == 2
MaxHandled == 3

Procs == 1..NProcs

\* ---------------------------------------------------------- constants
StatusBadRequest == 400
StatusTooManyRequests == 429
StatusInternalServerError == 500
StatusNoContent == 204
StatusOK == 200

\* --------------------------------------------------------------- state
VARIABLES
    c,          \* the RateLimitConfig captured by the closure
    hits,       \* request counters per client IP (map[string]int)
    reset,      \* instant after which the counters are cleared
    mu,         \* sync.Mutex: 0 when free, else the goroutine holding it
    clock,      \* the instant time.Now() showed last
    issued,     \* number of requests that have entered the handler
    pc,         \* position of each goroutine in the handler
    addr,       \* r.RemoteAddr of the request a goroutine serves
    now,        \* local now
    host,       \* local host
    old,        \* hits[host] as read by hits[host]++
    count,      \* local count
    rendered,   \* arguments of the RenderError calls made for the request
    status,     \* status code written to the ResponseWriter (0: none)
    nextCalls,  \* requests handed to next.ServeHTTP
    outcome,    \* branch of the handler the request took
    seen,       \* history: value of reset when the request read the clock
    pre,        \* history: <<hits, reset>> when the request took the mutex
    didReset,   \* history: the request cleared the counters
    arrived,    \* history: requests per key that reached the capacity check
                \*          since the counters were last cleared
    nth,        \* history: ordinal of the request among those of its key
    dropped,    \* history: number of counted requests a clear has discarded
    counted,    \* history: requests per key that passed the capacity check
                \*          since the counters were last cleared
    recording,  \* history: whether returned requests are written to log
    log,        \* history: the returned requests, in the order they returned
    given,      \* history: the argument list RateLimit was called with
    made,       \* the variables c, hits, reset of every call of RateLimit
    wraps,      \* the handlers made by applying the Middleware values
    handled,    \* number of requests those handlers have served
    last,       \* the request served last, and its outcome
    through,    \* history: per call of RateLimit, the requests per key that
                \*          its handlers have counted since its last clear
    chain,      \* the handler mux serves: its layers, outermost first
    built,      \* history: the middlewares as written in the wiring expression
    rl,         \* the variables c, hits, reset of the chain's RateLimit
    uuids,      \* number of identifiers uuid.NewString() has made
    entered,    \* number of requests the chain has received
    req,        \* the request being served
    frames,     \* call stack: per layer entered, its context and its recorder
    phase,      \* what the topmost frame is about to do
    resp,       \* the response: status written, headers set
    trace,      \* history: the layers whose logic has run, in order
    passed,     \* history: the frames that called next.ServeHTTP
    saw,        \* history: identifier the endpoint found in its context
    logs,       \* the log entries written for the request
    errorTemplate,      \* server.errorTemplate
    errorTemplateName,  \* server.errorTemplateName
    writer,     \* the http.ResponseWriter RenderError is given
    urlPath,    \* r.URL.Path of the request RenderError is given
    asked,      \* the code RenderError was called with (0: not called)
    page,       \* whether RenderError has been called, and how it ended
    filename,   \* Config.filename
    conf,       \* Config.cfg
    disk,       \* the content of the files the Config is used with
    call,       \* the Config method called last, and what it returned
    alive,      \* whether the process is still running
    mode,       \* which of Run and RunWithContext was called
    stage,      \* where that call is: at its select, at Shutdown, returned
    serverErrors,  \* chan error of capacity 1
    quit,       \* chan os.Signal of capacity 1
    ctxDone,    \* whether the context given has been cancelled
    took,       \* history: the case the select took, and what it found
    shut,       \* history: the call of Shutdown made, and its result
    result,     \* what the call returned
    order,      \* history: errors, cancellation and signals as they came
    variant,    \* which bearer middleware served the request
    authz,      \* r.Header.Get("Authorization")
    came,       \* r.Context() as the request came
    went,       \* the context of the request passed to next.ServeHTTP
    nexts,      \* number of calls of next.ServeHTTP made for the request
    parsed,     \* what the parser returned as error ("": not called)
    Views,      \* TemplateSet.Views of the set LoadTemplates returned
    loaded,     \* the error LoadTemplates returned ("no": not called)
    tree,       \* history: the directory LoadTemplates was given
    looked      \* the call of Get made last, and what it returned

shared == <<c, hits, reset, mu, clock, issued>>
locals == <<pc, addr, now, host, old, count>>
effects == <<rendered, status, nextCalls, outcome>>
history == <<seen, pre, didReset, arrived, nth, dropped, counted>>
audit == <<recording, log, given>>
instances == <<made, wraps, handled, last, through>>
\* State of the parts of the program other than the one limiter above.
pipeline == <<chain, built, rl, uuids, entered, req, frames, phase, resp,
              trace, passed, saw, logs>>
pages == <<errorTemplate, errorTemplateName, writer, urlPath, asked, page>>
files == <<filename, conf, disk, call, alive>>
serving == <<mode, stage, serverErrors, quit, ctxDone, took, shut, result,
             order>>
bearer == <<variant, authz, came, went, nexts, parsed>>
views == <<Views, loaded, tree, looked>>
extras == <<pages, files, serving, bearer, views>>
elsewhere == <<instances, pipeline, extras>>
\* State of the one limiter above, but for the clock.
limiter == <<c, hits, reset, mu, issued, locals, effects, history, audit>>
vars == <<shared, locals, effects, history, audit, elsewhere>>
\* The limiters and the chain, which the other parts leave alone.
core == <<clock, limiter, instances, pipeline>>

\* ------------------------------------------------------------- strings
\* A RemoteAddr is a sequence of one-character strings, so that
\* net.SplitHostPort can be computed on it.
RemoteAddrs ==
    { <<"a", ":", "1">>,            \* a:1
      <<"[", "a", "]", ":", "2">>,  \* [a]:2, the same host on another port
      <<"b", ":", "1">>,            \* b:1
      <<"a">> }                     \* a, no port

\* Largest and smallest element of a non-empty set of integers.
MaxOf(S) == CHOOSE x \in S : \A y \in S : y <= x
MinOf(S) == CHOOSE x \in S : \A y \in S : x <= y

\* Position (from 1) of the last / first occurrence of ch in s, 0 if none.
LastIndexByte(s, ch) ==
    LET I == {i \in 1..Len(s) : s[i] = ch} IN IF I = {} THEN 0 ELSE MaxOf(I)
IndexByte(s, ch) ==
    LET I == {i \in 1..Len(s) : s[i] = ch} IN IF I = {} THEN 0 ELSE MinOf(I)

\* s[from:] of Go, with from counted from 1.
Tail1(s, from) == SubSeq(s, from, Len(s))

AddrError(why) == [host |-> <<>>, port |-> <<>>, err |-> why]

\* net.SplitHostPort, once the last colon is found at position i: a host in
\* brackets ends at the first ']' which must be just before that colon; a
\* host without brackets holds no colon.  err = "" is Go's nil error.
SplitAt(hostport, i) ==
    IF hostport[1] = "["
    THEN LET end == IndexByte(hostport, "]")
         IN  IF end = 0 THEN AddrError("missing ']' in address")
             ELSE IF end = Len(hostport)
                  THEN AddrError("missing port in address")
             ELSE IF end + 1 # i
                  THEN IF hostport[end + 1] = ":"
                       THEN AddrError("too many colons in address")
                       ELSE AddrError("missing port in address")
             ELSE IF IndexByte(Tail1(hostport, 2), "[") # 0
                  THEN AddrError("unexpected '[' in address")
             ELSE IF IndexByte(Tail1(hostport, end + 1), "]") # 0
                  THEN AddrError("unexpected ']' in address")
             ELSE [host |-> SubSeq(hostport, 2, end - 1),
                   port |-> Tail1(hostport, i + 1),
                   err  |-> ""]
    ELSE IF IndexByte(SubSeq(hostport, 1, i - 1), ":") # 0
         THEN AddrError("too many colons in address")
    ELSE IF IndexByte(hostport, "[") # 0
         THEN AddrError("unexpected '[' in address")
    ELSE IF IndexByte(hostport, "]") # 0
         THEN AddrError("unexpected ']' in address")
    ELSE [host |-> SubSeq(hostport, 1, i - 1),
          port |-> Tail1(hostport, i + 1),
          err  |-> ""]

\* Faulty variant: an address without a colon is taken whole as the host.
SplitHostPortOrWhole(hostport) ==
    LET i == LastIndexByte(hostport, ":")
    IN  IF i = 0 THEN [host |-> hostport, port |-> <<>>, err |-> ""]
        ELSE SplitAt(hostport, i)

\* net.SplitHostPort: the port starts after the last colon, and an address
\* without a colon has no port.
SplitHostPort(hostport) ==
    LET i == LastIndexByte(hostport, ":")
    IN  IF i = 0 THEN AddrError("missing port in address")
        ELSE SplitAt(hostport, i)

\* ---------------------------------------------------------------- maps
\* map[string]int: a function on the keys present.
EmptyMap == [k \in {} |-> 0]
MapLen(m) == Cardinality(DOMAIN m)
MapHas(m, k) == k \in DOMAIN m
\* m[k] of Go: the zero value for an absent key.
MapGet(m, k) == IF k \in DOMAIN m THEN m[k] ELSE 0
MapPut(m, k, v) == [x \in DOMAIN m \cup {k} |-> IF x = k THEN v ELSE m[x]]
\* Sum of the values of m.
RECURSIVE MapSum(_)
MapSum(m) ==
    IF DOMAIN m = {} THEN 0
    ELSE LET k == CHOOSE x \in DOMAIN m : TRUE
         IN  m[k] + MapSum([x \in DOMAIN m \ {k} |-> m[x]])

\* ------------------------------------------------------- configuration
DefaultRateLimitConfig == [MaxRequests |-> 100, MaxClients |-> 1000, Window |-> 60]

\* Configurations a caller passes.
Tight == [MaxRequests |-> 1, MaxClients |-> 1, Window |-> 1]
Roomy == [MaxRequests |-> 2, MaxClients |-> 2, Window |-> 2]

\* Argument lists of RateLimit(cfg ...RateLimitConfig).
CfgArgs == { <<Tight>>, <<Roomy, Tight>> }

\* The RateLimitConfig of a configuration file without a rate_limit section.
ZeroConfig == [MaxRequests |-> 0, MaxClients |-> 0, Window |-> 0]

\* Argument lists with which RateLimit settles its policy: none, the section
\* of a configuration file, and those above.
PolicyArgs == CfgArgs \cup { <<>>, <<ZeroConfig>> }

\* Faulty variant: the last configuration given is used.
ConfigOfLast(cfg) == IF Len(cfg) > 0 THEN cfg[Len(cfg)] ELSE DefaultRateLimitConfig
\* c := DefaultRateLimitConfig(); if len(cfg) > 0 { c = cfg[0] }
ConfigOf(cfg) == IF Len(cfg) > 0 THEN cfg[1] ELSE DefaultRateLimitConfig

\* ------------------------------------------------------------ outcomes
Allowed == "Allowed"
RejectedNewClientCapacityExceeded == "RejectedNewClientCapacityExceeded"
RejectedRequestLimitExceeded == "RejectedRequestLimitExceeded"
RejectedMalformedClientIdentity == "RejectedMalformedClientIdentity"
Pending == "Pending"

NoSnapshot == [hits |-> EmptyMap, reset |-> 0, taken |-> FALSE]

\* ----------------------------------------------------------------- init
\* The state when RateLimit(cfg...) has returned, at instant 0.
InitWith(cfg) ==
    /\ given = cfg
    /\ c = ConfigOf(cfg)
    /\ hits = EmptyMap
    /\ reset = 0 + c.Window
    /\ mu = 0
    /\ clock = 0
    /\ issued = 0
    /\ pc = [p \in Procs |-> "idle"]
    /\ addr = [p \in Procs |-> <<>>]
    /\ now = [p \in Procs |-> 0]
    /\ host = [p \in Procs |-> <<>>]
    /\ old = [p \in Procs |-> 0]
    /\ count = [p \in Procs |-> 0]
    /\ rendered = [p \in Procs |-> <<>>]
    /\ status = [p \in Procs |-> 0]
    /\ nextCalls = [p \in Procs |-> <<>>]
    /\ outcome = [p \in Procs |-> Pending]
    /\ seen = [p \in Procs |-> 0]
    /\ pre = [p \in Procs |-> NoSnapshot]
    /\ didReset = [p \in Procs |-> FALSE]
    /\ arrived = EmptyMap
    /\ nth = [p \in Procs |-> 0]
    /\ dropped = 0
    /\ counted = EmptyMap

\* Behaviours of which no record is kept, and behaviours that are recorded.
Unrecorded == recording = FALSE /\ log = <<>>
Recorded == recording = TRUE /\ log = <<>>

NoRequest == [mw |-> 0, next |-> "", addr |-> <<>>, outcome |-> Pending]
\* RateLimit has not been called again.
NoInstances ==
    /\ made = <<>>
    /\ wraps = {}
    /\ handled = 0
    /\ last = NoRequest
    /\ through = <<>>
NoId == <<>>
NoReq == [method |-> "", rid |-> NoId, addr |-> <<>>, at |-> 0, does |-> ""]
NoResp == [status |-> 0, headers |-> {}, rid |-> NoId]
\* No request is being served.
Waiting ==
    /\ uuids = 0
    /\ entered = 0
    /\ req = NoReq
    /\ frames = <<>>
    /\ phase = "idle"
    /\ resp = NoResp
    /\ trace = <<>>
    /\ passed = {}
    /\ saw = NoId
    /\ logs = <<>>
\* No chain of middlewares has been built.
NoPipeline ==
    /\ chain = <<>>
    /\ built = <<>>
    /\ rl = [c |-> DefaultRateLimitConfig, hits |-> EmptyMap, reset |-> 0]
    /\ Waiting
\* ========================================================= error pages
\* server/error.go: RenderError on one http.ResponseWriter.

\* URL paths, as sequences of one-character strings.
ErrorPaths ==
    { <<"/", "a", "p", "i">>,                          \* /api
      <<"/", "a", ".", "j", "s">>,                     \* /a.js
      <<"/", "A", ".", "J", "S">>,                     \* /A.JS
      <<"/", "a", ".", "C", "s", "s">>,                \* /a.Css
      <<"/", "a", ".", "j", "s", "x">>,                \* /a.jsx
      <<"/", "a", ".", "j", "s", "/", "b">>,           \* /a.js/b
      <<"/", "a", ".", "b", ".", "p", "n", "g">>,      \* /a.b.png
      <<"/", ".", "x", "m", "l">>,                     \* /.xml
      <<"/", "a", ".", "h", "t", "m", "l">> }          \* /a.html

\* filepath.Ext: the suffix of the last path element from its last dot on,
\* empty when that element holds no dot.
Ext(path) ==
    LET slash == LastIndexByte(path, "/")
        dot == LastIndexByte(path, ".")
    IN  IF dot > slash THEN Tail1(path, dot) ELSE <<>>

\* Faulty variant: letters are left as they are.
ToLowerKeepsCase(s) == s
\* strings.ToLower.
ToLower(s) ==
    LET Uppers == <<"A", "B", "C", "D", "E", "F", "G", "H", "I", "J", "K",
                    "L", "M", "N", "O", "P", "Q", "R", "S", "T", "U", "V",
                    "W", "X", "Y", "Z">>
        Lowers == <<"a", "b", "c", "d", "e", "f", "g", "h", "i", "j", "k",
                    "l", "m", "n", "o", "p", "q", "r", "s", "t", "u", "v",
                    "w", "x", "y", "z">>
    IN  [i \in 1..Len(s) |->
            IF \E k \in 1..Len(Uppers) : Uppers[k] = s[i]
            THEN Lowers[CHOOSE k \in 1..Len(Uppers) : Uppers[k] = s[i]]
            ELSE s[i]]

\* The extensions isSilentError lists.
SilentExts ==
    { <<".", "j", "s">>, <<".", "c", "s", "s">>, <<".", "m", "a", "p">>,
      <<".", "i", "c", "o">>, <<".", "p", "n", "g">>, <<".", "s", "v", "g">>,
      <<".", "j", "p", "g">>, <<".", "j", "p", "e", "g">>,
      <<".", "w", "e", "b", "p">>, <<".", "w", "o", "f", "f">>,
      <<".", "w", "o", "f", "f", "2">>, <<".", "t", "t", "f">>,
      <<".", "e", "o", "t">>, <<".", "g", "i", "f">>, <<".", "p", "d", "f">>,
      <<".", "j", "s", "o", "n">>, <<".", "x", "m", "l">> }

\* An http.ResponseWriter: the Content-Type of its header map ("" when it
\* has none), whether the header has been sent, the status and Content-Type
\* sent, the chunks of body written; calls is the history of the codes
\* passed to WriteHeader, begun whether the header was sent before
\* RenderError was called.
NewWriter(type) ==
    [header |-> type, wrote |-> FALSE, status |-> 0, sent |-> "",
     body |-> <<>>, calls |-> <<>>, begun |-> FALSE]

\* w.WriteHeader(code): the first call sends the status and the header as it
\* is then, a later call is superfluous.
WriteHeader(rw, code) ==
    IF rw.wrote
    THEN [rw EXCEPT !.calls = Append(@, code)]
    ELSE [rw EXCEPT !.wrote = TRUE, !.status = code, !.sent = rw.header,
                    !.calls = Append(@, code)]

\* w.Write of one chunk: sends the header with 200 when it was not sent.
WriteBody(rw, chunk) ==
    LET s == IF rw.wrote THEN rw
             ELSE [rw EXCEPT !.wrote = TRUE, !.status = StatusOK,
                             !.sent = rw.header]
    IN  [s EXCEPT !.body = Append(@, chunk)]

\* http.Error(w, message, code): sets a plain-text Content-Type, writes the
\* code, writes the message.
HttpError(rw, code) ==
    WriteBody(WriteHeader([rw EXCEPT !.header = "text/plain; charset=utf-8"],
                          code),
              "text")

\* isSilentError: the result of the call; when it is true the call has
\* deleted the Content-Type and written the code.
isSilentError(path) == ToLower(Ext(path)) \in SilentExts

\* errorTemplate.ExecuteTemplate(w, name, data): the writer after the call,
\* and how the call ended ("" is a nil error).  errorTemplate is nil; or a
\* template set that defines the name and executes; or one that does not
\* define the name (an error before any output); or one whose execution
\* fails after part of the page was written.
ExecuteTemplate(tpl, rw) ==
    CASE tpl = "ok" -> [w |-> WriteBody(rw, "html"), err |-> ""]
      [] tpl = "undefined" -> [w |-> rw, err |-> "no template"]
      [] tpl = "failing" -> [w |-> WriteBody(rw, "html"), err |-> "exec"]
      [] tpl = "nil" -> [w |-> rw, err |-> "panic"]

\* RenderError(w, r, code, title, message): the writer after the call, and
\* whether the call panicked.
Rendered(rw, path, code, tpl, name) ==
    IF isSilentError(path) \/ name = ""
    THEN [w |-> WriteHeader([rw EXCEPT !.header = ""], code),
          panicked |-> FALSE]
    ELSE LET h == WriteHeader(
                      [rw EXCEPT !.header = "text/html; charset=utf-8"], code)
             x == ExecuteTemplate(tpl, h)
         IN  IF x.err = "" THEN [w |-> x.w, panicked |-> FALSE]
             ELSE IF x.err = "panic" THEN [w |-> x.w, panicked |-> TRUE]
             ELSE [w |-> HttpError(x.w, code), panicked |-> FALSE]

\* =============================================================== config
\* config/config.go: one Config[T] and the files it reads and writes.

\* File paths, as sequences of path elements; <<>> is the empty string.
FilePaths == {<<>>, <<"cfg.json">>, <<"etc", "cfg.json">>}

\* filepath.Dir: the path without its last element, "." when nothing is
\* left.
Dir(path) ==
    IF Len(path) <= 1 THEN <<".">> ELSE SubSeq(path, 1, Len(path) - 1)

\* Values of the wrapped configuration: the zero value, an edited value,
\* what a decode that failed half-way leaves, and one that json cannot
\* encode.
Encodable == {"zero", "edited", "partial"}

\* =============================================================== bearer
\* The three bearer middlewares, on one request each.

\* Values of the Authorization header, as sequences of one-character
\* strings; <<>> is a request without the header.
Authorizations ==
    { <<>>,
      <<"B", "e", "a", "r", "e", "r", " ", "t">>,            \* Bearer t
      <<"b", "e", "a", "r", "e", "r", " ", "t">>,            \* bearer t
      <<"B", "E", "A", "R", "E", "R", " ", "t">>,            \* BEARER t
      <<"B", "e", "a", "r", "e", "r", " ", " ", "t", " ">>,  \* Bearer  t_
      <<"B", "e", "a", "r", "e", "r", " ">>,                 \* Bearer_
      <<"B", "e", "a", "r", "e", "r">>,                      \* Bearer
      <<"B", "e", "a", "r", "e", "r", "t">>,                 \* Bearert
      <<"B", "a", "s", "i", "c", " ", "t">>,                 \* Basic t
      <<" ", "B", "e", "a", "r", "e", "r", " ", "t">>,       \* _Bearer t
      <<"B", "e", "a", "r", "e", "r", " ", "u">>,            \* Bearer u
      <<"b", "E", "a", "R", "e", "R", " ", "u">> }           \* bEaReR u

\* A context: under each of the three keys no value (<<>>) or one value.
EmptyCtx == [token |-> <<>>, typed |-> <<>>, map |-> <<>>]

\* What the handlers compute from the header: whether
\* strings.HasPrefix(strings.ToLower(h), "bearer ") holds, and
\* strings.TrimSpace(h[len("Bearer "):]).
BearerToken(h) ==
    LET prefix == <<"b", "e", "a", "r", "e", "r", " ">>
        found == /\ Len(h) >= Len(prefix)
                 /\ SubSeq(ToLower(h), 1, Len(prefix)) = prefix
        rest == Tail1(h, Len(prefix) + 1)
        inked == {i \in 1..Len(rest) : rest[i] # " "}
    IN  [found |-> found,
         token |-> IF inked = {} THEN <<>>
                   ELSE SubSeq(rest, MinOf(inked), MaxOf(inked))]

\* ============================================================ templates
\* templates/template.go: LoadTemplates and Get.

\* Names of the entries a template directory can hold, as sequences of
\* one-character strings: a.html, b.html, n.txt.
ViewNames ==
    { <<"a", ".", "h", "t", "m", "l">>, <<"b", ".", "h", "t", "m", "l">>,
      <<"n", ".", "t", "x", "t">> }

\* A template directory: whether os.ReadDir can read it; its layout files
\* (none, parsing, failing to parse); per name no entry, a file that
\* parses, a file that does not, or a directory.
TemplateDirs ==
    [readable : BOOLEAN, layouts : {"none", "ok", "broken"},
     files : [ViewNames -> {"absent", "good", "bad", "dir"}]]

\* Nothing has happened outside the limiters and the chain: no error page
\* asked for and no template configured; CFG zero-valued and no file on
\* disk; neither Run nor RunWithContext called; no request at a bearer
\* middleware; no template directory loaded.
NoExtras ==
    /\ errorTemplate = "nil"
    /\ errorTemplateName = ""
    /\ writer = NewWriter("")
    /\ urlPath = <<>>
    /\ asked = 0
    /\ page = "idle"
    /\ filename = <<>>
    /\ conf = "zero"
    /\ disk = [p \in FilePaths \ {<<>>} |-> "none"]
    /\ call = [op |-> "", arg |-> <<>>, err |-> ""]
    /\ alive = TRUE
    /\ mode = ""
    /\ stage = "idle"
    /\ serverErrors = <<>>
    /\ quit = <<>>
    /\ ctxDone = FALSE
    /\ took = [case |-> "", done |-> FALSE, quit |-> <<>>, order |-> <<>>,
               got |-> ""]
    /\ shut = [called |-> FALSE, bound |-> "", err |-> ""]
    /\ result = ""
    /\ order = <<>>
    /\ variant = ""
    /\ authz = <<>>
    /\ came = EmptyCtx
    /\ went = EmptyCtx
    /\ nexts = 0
    /\ parsed = ""
    /\ Views = <<>>
    /\ loaded = "no"
    /\ tree = [readable |-> FALSE, layouts |-> "none",
               files |-> [n \in ViewNames |-> "absent"]]
    /\ looked = [name |-> <<>>, tpl |-> "nil", err |-> ""]
Quiet == NoInstances /\ NoPipeline /\ NoExtras

Init == (\E cfg \in CfgArgs : InitWith(cfg)) /\ Unrecorded /\ Quiet

\* ------------------------------------------------------------- helpers
\* Faulty variants: expired already at the instant reset; the comparison
\* the other way round.
AfterOrAt(t, u) == t >= u
Before(t, u) == t < u
\* now.After(reset)
After(t, u) == t > u

\* Faulty variants: a full table turns tracked clients away too; the table
\* is full only past MaxClients.
AtCapacityAnyKey(m, k, maxClients) == MapLen(m) >= maxClients
AtCapacityOnePast(m, k, maxClients) == ~MapHas(m, k) /\ MapLen(m) > maxClients
\* _, exists := hits[host]; !exists && len(hits) >= c.MaxClients
AtCapacity(m, k, maxClients) == ~MapHas(m, k) /\ MapLen(m) >= maxClients

\* Faulty variant: the request that reaches MaxRequests is rejected.
AtLimit(n, maxRequests) == n >= maxRequests
\* count > c.MaxRequests
OverLimit(n, maxRequests) == n > maxRequests

\* Faulty variant: no mutual exclusion.
LockIgnored(p) == TRUE
\* mu.Lock() returns only when no goroutine holds the mutex.
CanLock(p) == mu = 0

InFlight(p) == pc[p] \notin {"idle", "done"}
\* Between mu.Lock() and the mu.Unlock() of the path taken.
InCritical(p) == pc[p] \in {"window", "admit", "load", "store"}

\* Goroutines are interchangeable: a request is served by the first one
\* that is not serving another.
FirstFree(p) == ~InFlight(p) /\ \A q \in Procs : q < p => InFlight(q)

\* ------------------------------------------------------------- actions
\* The server calls the handler with a request from RemoteAddr a;
\* now := time.Now()
\* The clock is monotonic and is read nowhere else: the instant t it shows
\* is any instant not before the one it showed last.
Arrive(p, a, t) ==
    /\ t >= clock
    /\ clock' = t
    /\ issued' = issued + 1
    /\ pc' = [pc EXCEPT ![p] = "lock"]
    /\ addr' = [addr EXCEPT ![p] = a]
    /\ now' = [now EXCEPT ![p] = t]
    /\ host' = [host EXCEPT ![p] = <<>>]
    /\ old' = [old EXCEPT ![p] = 0]
    /\ count' = [count EXCEPT ![p] = 0]
    /\ rendered' = [rendered EXCEPT ![p] = <<>>]
    /\ status' = [status EXCEPT ![p] = 0]
    /\ nextCalls' = [nextCalls EXCEPT ![p] = <<>>]
    /\ outcome' = [outcome EXCEPT ![p] = Pending]
    /\ seen' = [seen EXCEPT ![p] = reset]
    /\ pre' = [pre EXCEPT ![p] = NoSnapshot]
    /\ didReset' = [didReset EXCEPT ![p] = FALSE]
    /\ nth' = [nth EXCEPT ![p] = 0]
    /\ UNCHANGED <<c, hits, reset, mu, arrived, dropped, counted, audit, elsewhere>>

Enter(p, a, t) ==
    /\ FirstFree(p)
    /\ issued < MaxIssued
    /\ Arrive(p, a, t)

\* mu.Lock()
Lock(p) ==
    /\ pc[p] = "lock"
    /\ CanLock(p)
    /\ mu' = p
    /\ pc' = [pc EXCEPT ![p] = "window"]
    /\ pre' = [pre EXCEPT ![p] = [hits |-> hits, reset |-> reset, taken |-> TRUE]]
    /\ UNCHANGED <<c, hits, reset, clock, issued, addr, now, host, old, count,
                   effects, seen, didReset, arrived, nth, dropped, counted, audit, elsewhere>>

\* Faulty variant: an expired window is moved on but the counters are kept.
ExpireKeepsCounts(p) ==
    /\ pc[p] = "window"
    /\ IF now[p] > reset
       THEN /\ reset' = now[p] + c.Window
            /\ didReset' = [didReset EXCEPT ![p] = TRUE]
            /\ UNCHANGED <<hits, arrived, dropped, counted>>
       ELSE UNCHANGED <<hits, reset, didReset, arrived, dropped, counted>>
    /\ pc' = [pc EXCEPT ![p] = "admit"]
    /\ UNCHANGED <<c, mu, clock, issued, addr, now, host, old, count,
                   effects, seen, pre, nth, audit, elsewhere>>
\* if now.After(reset) { hits = map[string]int{}; reset = now.Add(c.Window) }
Expire(p) ==
    /\ pc[p] = "window"
    /\ IF After(now[p], reset)
       THEN /\ hits' = EmptyMap
            /\ reset' = now[p] + c.Window
            /\ didReset' = [didReset EXCEPT ![p] = TRUE]
            /\ arrived' = EmptyMap
            /\ dropped' = dropped + MapSum(hits)
            /\ counted' = EmptyMap
       ELSE UNCHANGED <<hits, reset, didReset, arrived, dropped, counted>>
    /\ pc' = [pc EXCEPT ![p] = "admit"]
    /\ UNCHANGED <<c, mu, clock, issued, addr, now, host, old, count,
                   effects, seen, pre, nth, audit, elsewhere>>

\* Faulty variant: the mutex is not released.
UnlockMissing(p) ==
    /\ mu' = mu
    /\ pre' = [pre EXCEPT ![p] = NoSnapshot]
\* mu.Unlock()
Unlock(p) ==
    /\ mu' = 0
    /\ pre' = [pre EXCEPT ![p] = NoSnapshot]

\* host, _, err := net.SplitHostPort(r.RemoteAddr)
\* if err != nil { mu.Unlock(); ... }
\* if _, exists := hits[host]; !exists && len(hits) >= c.MaxClients {
\*     mu.Unlock(); ... }
Admit(p) ==
    /\ pc[p] = "admit"
    /\ LET r == SplitHostPort(addr[p])
       IN  IF r.err # ""
           THEN /\ pc' = [pc EXCEPT ![p] = "bad"]
                /\ outcome' = [outcome EXCEPT ![p] = RejectedMalformedClientIdentity]
                /\ Unlock(p)
                /\ UNCHANGED <<host, arrived, nth, counted>>
           ELSE /\ host' = [host EXCEPT ![p] = r.host]
                /\ arrived' = MapPut(arrived, r.host, MapGet(arrived, r.host) + 1)
                /\ nth' = [nth EXCEPT ![p] = MapGet(arrived, r.host) + 1]
                /\ IF AtCapacity(hits, r.host, c.MaxClients)
                   THEN /\ pc' = [pc EXCEPT ![p] = "full"]
                        /\ outcome' = [outcome EXCEPT ![p] =
                                          RejectedNewClientCapacityExceeded]
                        /\ Unlock(p)
                        /\ UNCHANGED counted
                   ELSE /\ pc' = [pc EXCEPT ![p] = "load"]
                        /\ counted' = MapPut(counted, r.host,
                                             MapGet(counted, r.host) + 1)
                        /\ UNCHANGED <<mu, pre, outcome>>
    /\ UNCHANGED <<c, hits, reset, clock, issued, addr, now, old, count,
                   rendered, status, nextCalls, seen, didReset, dropped, audit, elsewhere>>

\* Faulty variant: the counter is taken to be absent.
LoadAbsent(p) ==
    /\ pc[p] = "load"
    /\ old' = [old EXCEPT ![p] = 0]
    /\ pc' = [pc EXCEPT ![p] = "store"]
    /\ UNCHANGED <<shared, addr, now, host, count, effects, history, audit, elsewhere>>
\* hits[host]++ reads the counter ...
Load(p) ==
    /\ pc[p] = "load"
    /\ old' = [old EXCEPT ![p] = MapGet(hits, host[p])]
    /\ pc' = [pc EXCEPT ![p] = "store"]
    /\ UNCHANGED <<shared, addr, now, host, count, effects, history, audit, elsewhere>>

\* Faulty variants: the counter is written back as it was read; the key
\* written takes the place of the keys tracked before.
StoreUncounted(p) ==
    /\ pc[p] = "store"
    /\ hits' = MapPut(hits, host[p], old[p])
    /\ count' = [count EXCEPT ![p] = MapGet(hits', host[p])]
    /\ Unlock(p)
    /\ pc' = [pc EXCEPT ![p] = "limit"]
    /\ UNCHANGED <<c, reset, clock, issued, addr, now, host, old, effects,
                   seen, didReset, arrived, nth, dropped, counted, audit, elsewhere>>
StoreEvicting(p) ==
    /\ pc[p] = "store"
    /\ hits' = MapPut(EmptyMap, host[p], old[p] + 1)
    /\ count' = [count EXCEPT ![p] = MapGet(hits', host[p])]
    /\ Unlock(p)
    /\ pc' = [pc EXCEPT ![p] = "limit"]
    /\ UNCHANGED <<c, reset, clock, issued, addr, now, host, old, effects,
                   seen, didReset, arrived, nth, dropped, counted, audit, elsewhere>>
\* ... and writes it back, one higher; count := hits[host]; mu.Unlock()
Store(p) ==
    /\ pc[p] = "store"
    /\ hits' = MapPut(hits, host[p], old[p] + 1)
    /\ count' = [count EXCEPT ![p] = MapGet(hits', host[p])]
    /\ Unlock(p)
    /\ pc' = [pc EXCEPT ![p] = "limit"]
    /\ UNCHANGED <<c, reset, clock, issued, addr, now, host, old, effects,
                   seen, didReset, arrived, nth, dropped, counted, audit, elsewhere>>

\* The handler returns: its locals are gone; what it did to the response
\* and to next stays.
Return(p) ==
    /\ pc' = [pc EXCEPT ![p] = "done"]
    /\ now' = [now EXCEPT ![p] = 0]
    /\ host' = [host EXCEPT ![p] = <<>>]
    /\ old' = [old EXCEPT ![p] = 0]
    /\ count' = [count EXCEPT ![p] = 0]
    /\ seen' = [seen EXCEPT ![p] = 0]
    /\ didReset' = [didReset EXCEPT ![p] = FALSE]
    /\ log' = IF recording
              THEN Append(log, [addr |-> addr[p], at |-> now[p], outcome |-> outcome'[p]])
              ELSE log
    /\ UNCHANGED <<shared, addr, pre, arrived, nth, dropped, counted, recording, given,
                   elsewhere>>

\* server.RenderError(w, r, code, ...): every path writes the status code
\* with w.WriteHeader(code); the first WriteHeader of a response stands.
RenderError(p, code) ==
    /\ rendered' = [rendered EXCEPT ![p] = Append(rendered[p], code)]
    /\ status' = [status EXCEPT ![p] = IF status[p] = 0 THEN code ELSE status[p]]

\* server.BadRequest(w, r)
BadRequest(p) == RenderError(p, StatusBadRequest)

\* server.TooManyRequests(w, r)
TooManyRequests(p) == RenderError(p, StatusTooManyRequests)

\* Faulty variant: next is called twice.
ServeNextTwice(p) ==
    nextCalls' = [nextCalls EXCEPT ![p] =
                     nextCalls[p] \o <<[w |-> p, r |-> addr[p]], [w |-> p, r |-> addr[p]]>>]
\* next.ServeHTTP(w, r)
ServeNext(p) ==
    nextCalls' = [nextCalls EXCEPT ![p] = Append(nextCalls[p], [w |-> p, r |-> addr[p]])]

\* server.BadRequest(w, r); return        (after a failed SplitHostPort)
RejectMalformed(p) ==
    /\ pc[p] = "bad"
    /\ BadRequest(p)
    /\ UNCHANGED <<nextCalls, outcome>>
    /\ Return(p)

\* Faulty variant: the return after the rejection is missing.
RejectCapacityNoReturn(p) ==
    /\ pc[p] = "full"
    /\ TooManyRequests(p)
    /\ ServeNext(p)
    /\ UNCHANGED outcome
    /\ Return(p)
\* server.TooManyRequests(w, r); return   (after the capacity check)
RejectCapacity(p) ==
    /\ pc[p] = "full"
    /\ TooManyRequests(p)
    /\ UNCHANGED <<nextCalls, outcome>>
    /\ Return(p)

\* if count > c.MaxRequests { server.TooManyRequests(w, r); return }
\* next.ServeHTTP(w, r)
Limit(p) ==
    /\ pc[p] = "limit"
    /\ IF OverLimit(count[p], c.MaxRequests)
       THEN /\ outcome' = [outcome EXCEPT ![p] = RejectedRequestLimitExceeded]
            /\ TooManyRequests(p)
            /\ UNCHANGED nextCalls
       ELSE /\ outcome' = [outcome EXCEPT ![p] = Allowed]
            /\ ServeNext(p)
            /\ UNCHANGED <<rendered, status>>
    /\ Return(p)

Next ==
    \/ \E p \in Procs : \E a \in RemoteAddrs : \E t \in 0..MaxTime : Enter(p, a, t)
    \/ \E p \in Procs : Lock(p)
    \/ \E p \in Procs : Expire(p)
    \/ \E p \in Procs : Admit(p)
    \/ \E p \in Procs : Load(p)
    \/ \E p \in Procs : Store(p)
    \/ \E p \in Procs : RejectMalformed(p)
    \/ \E p \in Procs : RejectCapacity(p)
    \/ \E p \in Procs : Limit(p)

Spec == Init /\ [][Next]_vars

\* ------------------------------------------------------ burst of requests
\* NProcs goroutines issue one request each, all from the same client, to a
\* limiter that allows one request fewer.
BurstAddr == <<"a", ":", "1">>
BurstWindows == {1, 2}

InitBurst ==
    \E w \in BurstWindows :
        /\ InitWith(<<[MaxRequests |-> NProcs - 1, MaxClients |-> 1, Window |-> w]>>)
        /\ Unrecorded
        /\ Quiet

EnterOnce(p, t) ==
    /\ pc[p] = "idle"
    /\ Arrive(p, BurstAddr, t)

NextBurst ==
    \/ \E p \in Procs : \E t \in 0..MaxTime : EnterOnce(p, t)
    \/ \E p \in Procs : Lock(p)
    \/ \E p \in Procs : Expire(p)
    \/ \E p \in Procs : Admit(p)
    \/ \E p \in Procs : Load(p)
    \/ \E p \in Procs : Store(p)
    \/ \E p \in Procs : Limit(p)

SpecBurst == InitBurst /\ [][NextBurst]_vars

\* ------------------------------------------------ requests one at a time
\* One goroutine serves MaxServed requests one after the other, so that every
\* request is admitted with a clock reading not before that of the request
\* admitted before it.  The requests that returned are kept in log.
ClientA == <<"a", ":", "1">>
ClientB == <<"b", ":", "1">>
ScenarioPolicy == [MaxRequests |-> 2, MaxClients |-> 1, Window |-> 1]
SeqPolicies == {ScenarioPolicy, Roomy}

InitSeq == (\E pol \in SeqPolicies : InitWith(<<pol>>)) /\ Recorded /\ Quiet

EnterNext(a, t) ==
    /\ pc[1] \in {"idle", "done"}
    /\ issued < MaxServed
    /\ Arrive(1, a, t)

NextSeq ==
    \/ \E a \in {ClientA, ClientB} : \E t \in 0..MaxTime : EnterNext(a, t)
    \/ Lock(1)
    \/ Expire(1)
    \/ Admit(1)
    \/ Load(1)
    \/ Store(1)
    \/ RejectCapacity(1)
    \/ Limit(1)

SpecSeq == InitSeq /\ [][NextSeq]_vars

\* ------------------------------------------------------ policy in effect
\* RateLimit is called with any of the argument lists; one goroutine then
\* serves requests one after the other.
InitPolicy == (\E cfg \in PolicyArgs : InitWith(cfg)) /\ Unrecorded /\ Quiet

NextPolicy ==
    \/ \E a \in RemoteAddrs : \E t \in 0..MaxTime : EnterNext(a, t)
    \/ Lock(1)
    \/ Expire(1)
    \/ Admit(1)
    \/ Load(1)
    \/ Store(1)
    \/ RejectMalformed(1)
    \/ RejectCapacity(1)
    \/ Limit(1)

SpecPolicy == InitPolicy /\ [][NextPolicy]_vars

\* ------------------------------------------------------- fair scheduling
\* Each goroutine serves one request.  The Go scheduler lets every runnable
\* goroutine run, and sync.Mutex hands the lock to a goroutine that keeps
\* waiting for it (starvation mode), so every step of the handler that can
\* be taken is taken; nothing makes a client send a request.
InitLive == InitWith(<<Tight>>) /\ Unrecorded /\ Quiet

\* A client, a second client, and an address without a port; a request is
\* read at the instant of the request before it or at the last instant.
LiveAddrs == { <<"a", ":", "1">>, <<"b", ":", "1">>, <<"a">> }

EnterFresh(p, a, t) ==
    /\ pc[p] = "idle"
    /\ \A q \in Procs : q < p => pc[q] # "idle"
    /\ Arrive(p, a, t)

NextLive ==
    \/ \E p \in Procs : \E a \in LiveAddrs : \E t \in {clock, MaxTime} : EnterFresh(p, a, t)
    \/ \E p \in Procs : Lock(p)
    \/ \E p \in Procs : Expire(p)
    \/ \E p \in Procs : Admit(p)
    \/ \E p \in Procs : Load(p)
    \/ \E p \in Procs : Store(p)
    \/ \E p \in Procs : RejectMalformed(p)
    \/ \E p \in Procs : RejectCapacity(p)
    \/ \E p \in Procs : Limit(p)

Fairness ==
    \A p \in Procs :
        /\ SF_vars(Lock(p))
        /\ WF_vars(Expire(p))
        /\ WF_vars(Admit(p))
        /\ WF_vars(Load(p))
        /\ WF_vars(Store(p))
        /\ WF_vars(RejectMalformed(p))
        /\ WF_vars(RejectCapacity(p))
        /\ WF_vars(Limit(p))

SpecLive == InitLive /\ [][NextLive]_vars /\ Fairness

\* ------------------------------------------------- several RateLimit calls
\* RateLimit is called several times and each Middleware value it returns is
\* applied to several handlers.  A request is served from the entry of the
\* handler closure to its return in one step: the mutex makes the section
\* between Lock and Unlock one unit, and nothing outside it is shared.
\* The handlers are built when the program starts, before the server takes
\* requests, as main does.
InitInstances == InitWith(<<Tight>>) /\ Unrecorded /\ Quiet

\* var ( mu sync.Mutex; hits = map[string]int{}; reset = time.Now().Add(c.Window) )
CallRateLimit(cfg) ==
    /\ Len(made) < MaxCalls
    /\ handled = 0
    /\ made' = Append(made, [c |-> ConfigOf(cfg), hits |-> EmptyMap,
                             reset |-> clock + ConfigOf(cfg).Window])
    /\ through' = Append(through, EmptyMap)
    /\ UNCHANGED <<wraps, handled, last, clock, limiter, pipeline, extras>>

\* The handlers a Middleware value is applied to.
NextHandlers == {"api", "static"}

\* Faulty variant: the variables are created when the Middleware is applied,
\* one set for every handler.
ApplyOwnTable(l, next) ==
    /\ l \in 1..Len(made)
    /\ handled = 0
    /\ \A x \in wraps : ~(x.mw = l /\ x.next = next)
    /\ made' = Append(made, [c |-> made[l].c, hits |-> EmptyMap,
                             reset |-> clock + made[l].c.Window])
    /\ wraps' = wraps \cup {[mw |-> l, next |-> next, env |-> Len(made) + 1]}
    /\ UNCHANGED <<handled, last, through, clock, limiter, pipeline, extras>>
\* return func(next http.Handler) http.Handler { return http.HandlerFunc(...) }:
\* the handler closure captures the variables of the call of RateLimit that
\* made the Middleware.
Apply(l, next) ==
    /\ l \in 1..Len(made)
    /\ handled = 0
    /\ \A x \in wraps : ~(x.mw = l /\ x.next = next)
    /\ wraps' = wraps \cup {[mw |-> l, next |-> next, env |-> l]}
    /\ UNCHANGED <<made, handled, last, through, clock, limiter, pipeline, extras>>

\* The handler closure on the variables v, for a request from RemoteAddr a
\* that reads the clock at t: the variables it leaves and the branch it takes.
Admission(v, a, t) ==
    LET expired == After(t, v.reset)
        hits1 == IF expired THEN EmptyMap ELSE v.hits
        reset1 == IF expired THEN t + v.c.Window ELSE v.reset
        r == SplitHostPort(a)
    IN  IF r.err # ""
        THEN [hits |-> hits1, reset |-> reset1, cleared |-> expired,
              counted |-> FALSE, key |-> <<>>,
              outcome |-> RejectedMalformedClientIdentity]
        ELSE IF AtCapacity(hits1, r.host, v.c.MaxClients)
        THEN [hits |-> hits1, reset |-> reset1, cleared |-> expired,
              counted |-> FALSE, key |-> r.host,
              outcome |-> RejectedNewClientCapacityExceeded]
        ELSE [hits |-> MapPut(hits1, r.host, MapGet(hits1, r.host) + 1),
              reset |-> reset1, cleared |-> expired,
              counted |-> TRUE, key |-> r.host,
              outcome |-> IF OverLimit(MapGet(hits1, r.host) + 1, v.c.MaxRequests)
                          THEN RejectedRequestLimitExceeded
                          ELSE Allowed]

\* The handler x serves a request.
Handle(x, a, t) ==
    /\ x \in wraps
    /\ handled < MaxHandled
    /\ t >= clock
    /\ clock' = t
    /\ handled' = handled + 1
    /\ LET res == Admission(made[x.env], a, t)
           kept == IF res.cleared THEN EmptyMap ELSE through[x.mw]
       IN  /\ made' = [made EXCEPT ![x.env] =
                          [c |-> @.c, hits |-> res.hits, reset |-> res.reset]]
           /\ through' = [through EXCEPT ![x.mw] =
                             IF res.counted
                             THEN MapPut(kept, res.key, MapGet(kept, res.key) + 1)
                             ELSE kept]
           /\ last' = [mw |-> x.mw, next |-> x.next, addr |-> a,
                       outcome |-> res.outcome]
    /\ UNCHANGED <<wraps, limiter, pipeline, extras>>

NextInstances ==
    \/ CallRateLimit(<<Tight>>)
    \/ \E l \in 1..MaxCalls : \E next \in NextHandlers : Apply(l, next)
    \/ \E x \in wraps : \E a \in {ClientA, ClientB} : \E t \in {clock, MaxTime} :
           Handle(x, a, t)

SpecInstances == InitInstances /\ [][NextInstances]_vars

\* ------------------------------------------------------ middleware chain
\* type Middleware func(http.Handler) http.Handler: a handler is the sequence
\* of its layers, outermost first; the endpoint is the innermost layer.
Endpoint == <<"handler">>

\* Faulty variant: the middleware is put next to the endpoint.
WrapInner(m, h) == SubSeq(h, 1, Len(h) - 1) \o <<m>> \o Endpoint
\* m(h): the handler m returns calls h as next.
Wrap(m, h) == <<m>> \o h

\* ms[1](ms[2](...(endpoint))): the value of the wiring expression in which
\* the middlewares ms are written from left to right.
RECURSIVE Build(_)
Build(ms) == IF ms = <<>> THEN Endpoint ELSE Wrap(Head(ms), Build(Tail(ms)))

Middlewares == {"CORS", "RateLimit", "Recovery", "RequestID", "Logging"}
\* CORS(RateLimit(Recovery(RequestID(Logging(handler)))))
ExampleWiring == <<"CORS", "RateLimit", "Recovery", "RequestID", "Logging">>
\* The wirings served: that of main, every A(B(handler)), and one that
\* applies RequestID on both sides of Logging.
Wirings ==
    {ExampleWiring, <<"RequestID", "Logging", "RequestID">>}
        \cup {<<A, B>> : A \in Middlewares, B \in Middlewares}

DefaultCORSConfig == [AllowCredentials |-> FALSE, MaxAge |-> 600]
\* The response headers CORS sets under configuration cc.
CORSHeaders(cc) ==
    {"Access-Control-Allow-Origin", "Access-Control-Allow-Methods",
     "Access-Control-Allow-Headers"}
        \cup (IF cc.AllowCredentials THEN {"Access-Control-Allow-Credentials"} ELSE {})
        \cup (IF cc.MaxAge > 0 THEN {"Access-Control-Max-Age"} ELSE {})

Methods == {"GET", "OPTIONS"}
\* The X-Request-ID request header: absent, or sent by the client.
ClientIds == {NoId, <<"client">>}
\* What the endpoint does: writes a body, writes nothing, panics, panics after
\* it has written a body.
Doings == {"ok", "silent", "panic", "late"}

InitChain ==
    /\ InitWith(<<Tight>>) /\ Unrecorded /\ NoInstances /\ NoExtras
    /\ \E ms \in Wirings : chain = Build(ms) /\ built = ms
    /\ rl = [c |-> Tight, hits |-> EmptyMap, reset |-> 0 + Tight.Window]
    /\ Waiting

\* The frame that is running, and its layer.
Top == Len(frames)
Layer == chain[Top]
Running(m) == phase = "call" /\ Layer = m

Pop(fs) == SubSeq(fs, 1, Len(fs) - 1)

\* w.WriteHeader(code) in frame d: the first status written stands, and every
\* statusRecorder that Logging put around the writer above d records code.
Written(code) == IF resp.status = 0 THEN code ELSE resp.status
Recording(fs, d, code) ==
    [i \in 1..Len(fs) |->
        IF chain[i] = "Logging" /\ i < d THEN [fs[i] EXCEPT !.rec = code] ELSE fs[i]]

\* The server calls the handler mux found for the request.
Receive(m, id, a, t, d) ==
    /\ phase \in {"idle", "done", "crashed"}
    /\ entered < MaxHandled
    /\ t >= clock
    /\ clock' = t
    /\ entered' = entered + 1
    /\ req' = [method |-> m, rid |-> id, addr |-> a, at |-> t, does |-> d]
    /\ frames' = << [ctx |-> NoId, rec |-> 0] >>
    /\ phase' = "call"
    /\ resp' = NoResp
    /\ trace' = <<>>
    /\ passed' = {}
    /\ saw' = NoId
    /\ logs' = <<>>
    /\ UNCHANGED <<chain, built, rl, uuids, limiter, instances, extras>>

\* next.ServeHTTP(w, r), r carrying the context ctx.
CallNext(ctx) ==
    /\ frames' = Append(frames, [ctx |-> ctx, rec |-> 0])
    /\ passed' = passed \cup {Top}
    /\ phase' = "call"

\* The running frame returns to its caller, or to the server, after it wrote
\* the frames fs.
ReturnFrom(fs) ==
    /\ frames' = Pop(fs)
    /\ phase' = IF Len(fs) = 1 THEN "done" ELSE "return"

\* Faulty variant: a preflight request is passed on like any other.
CORSPassesPreflight ==
    /\ Running("CORS")
    /\ trace' = Append(trace, "CORS")
    /\ resp' = [resp EXCEPT !.headers = @ \cup CORSHeaders(DefaultCORSConfig)]
    /\ CallNext(frames[Top].ctx)
    /\ UNCHANGED <<chain, built, rl, uuids, entered, req, saw, logs, clock,
                   limiter, instances, extras>>
\* The handler CORS returns (cors.go).
CORS ==
    /\ Running("CORS")
    /\ trace' = Append(trace, "CORS")
    /\ IF req.method = "OPTIONS"
       THEN /\ resp' = [resp EXCEPT !.headers = @ \cup CORSHeaders(DefaultCORSConfig),
                                    !.status = Written(StatusNoContent)]
            /\ ReturnFrom(Recording(frames, Top, StatusNoContent))
            /\ UNCHANGED passed
       ELSE /\ resp' = [resp EXCEPT !.headers = @ \cup CORSHeaders(DefaultCORSConfig)]
            /\ CallNext(frames[Top].ctx)
    /\ UNCHANGED <<chain, built, rl, uuids, entered, req, saw, logs, clock,
                   limiter, instances, extras>>

\* The handler RateLimit returns (ratelimiter.go), from entry to return.  A
\* rejection is rendered by server.RenderError for a path that is no static
\* asset: it writes the code and then, when a template name is configured
\* and the template is nil, panics in ExecuteTemplate.
RateLimit ==
    /\ Running("RateLimit")
    /\ trace' = Append(trace, "RateLimit")
    /\ LET res == Admission(rl, req.addr, req.at)
           code == IF res.outcome = RejectedMalformedClientIdentity
                   THEN StatusBadRequest ELSE StatusTooManyRequests
       IN  /\ rl' = [c |-> rl.c, hits |-> res.hits, reset |-> res.reset]
           /\ IF res.outcome = Allowed
              THEN /\ CallNext(frames[Top].ctx)
                   /\ UNCHANGED resp
              ELSE /\ resp' = [resp EXCEPT !.status = Written(code)]
                   /\ IF errorTemplateName # "" /\ errorTemplate = "nil"
                      THEN /\ frames' = Pop(Recording(frames, Top, code))
                           /\ phase' = IF Top = 1 THEN "crashed" ELSE "panic"
                      ELSE ReturnFrom(Recording(frames, Top, code))
                   /\ UNCHANGED passed
    /\ UNCHANGED <<chain, built, uuids, entered, req, saw, logs, clock,
                   limiter, instances, extras>>

\* The handler Recovery returns, up to its call of next.
Recovery ==
    /\ Running("Recovery")
    /\ trace' = Append(trace, "Recovery")
    /\ CallNext(frames[Top].ctx)
    /\ UNCHANGED <<chain, built, rl, uuids, entered, req, resp, saw, logs, clock,
                   limiter, instances, extras>>

\* uuid.NewString(): an identifier made never before.
NewString == <<"uuid", uuids + 1>>

\* GetRequestID(ctx): the identifier the context holds, the empty string
\* when it holds none.
GetRequestID(ctx) == IF ctx = NoId THEN <<>> ELSE ctx

\* RequestID with a fresh identifier for every request, whatever the
\* X-Request-ID header of the request.
RequestIDAlwaysNew ==
    /\ Running("RequestID")
    /\ trace' = Append(trace, "RequestID")
    /\ uuids' = uuids + 1
    /\ resp' = [resp EXCEPT !.rid = NewString]
    /\ CallNext(NewString)
    /\ UNCHANGED <<chain, built, rl, entered, req, saw, logs, clock,
                   limiter, instances, extras>>

\* The handler RequestID returns.
RequestID ==
    /\ Running("RequestID")
    /\ trace' = Append(trace, "RequestID")
    /\ LET id == IF req.rid = NoId THEN NewString ELSE req.rid
       IN  /\ uuids' = IF req.rid = NoId THEN uuids + 1 ELSE uuids
           /\ resp' = [resp EXCEPT !.rid = id]
           /\ CallNext(id)
    /\ UNCHANGED <<chain, built, rl, entered, req, saw, logs, clock,
                   limiter, instances, extras>>

\* The handler Logging returns, up to its call of next.
Logging ==
    /\ Running("Logging")
    /\ trace' = Append(trace, "Logging")
    /\ frames' = Append([frames EXCEPT ![Top].rec = StatusOK],
                        [ctx |-> frames[Top].ctx, rec |-> 0])
    /\ passed' = passed \cup {Top}
    /\ phase' = "call"
    /\ UNCHANGED <<chain, built, rl, uuids, entered, req, resp, saw, logs, clock,
                   limiter, instances, extras>>

\* The endpoint, such as HelloJSON: it reads GetRequestID(r.Context()), then
\* calls w.WriteHeader(http.StatusOK) and writes a body, or writes nothing,
\* and returns or panics.
Handler ==
    /\ Running("handler")
    /\ trace' = Append(trace, "handler")
    /\ saw' = frames[Top].ctx
    /\ resp' = IF req.does \in {"ok", "late"}
               THEN [resp EXCEPT !.status = Written(StatusOK)]
               ELSE resp
    /\ frames' = IF req.does \in {"ok", "late"}
                 THEN Pop(Recording(frames, Top, StatusOK))
                 ELSE Pop(frames)
    /\ phase' = IF req.does \in {"panic", "late"}
                THEN (IF Top = 1 THEN "crashed" ELSE "panic")
                ELSE (IF Top = 1 THEN "done" ELSE "return")
    /\ UNCHANGED <<chain, built, rl, uuids, entered, req, passed, logs, clock,
                   limiter, instances, extras>>

\* next.ServeHTTP has returned to the running frame, which runs what follows
\* its call of next and returns: Logging writes its log entry with the
\* status its recorder holds and GetRequestID(r.Context()).
Resume ==
    /\ phase = "return"
    /\ logs' = IF Layer = "Logging"
               THEN Append(logs, [status |-> frames[Top].rec, rid |-> frames[Top].ctx])
               ELSE logs
    /\ ReturnFrom(frames)
    /\ UNCHANGED <<chain, built, rl, uuids, entered, req, resp, trace, passed, saw,
                   clock, limiter, instances, extras>>

\* A panic reaches the running frame: the deferred function of Recovery
\* recovers it and calls server.InternalServerError(w, r), which panics in
\* its turn when the template configured is nil; any other layer is left
\* without running what follows its call of next.
Unwind ==
    /\ phase = "panic"
    /\ IF Layer = "Recovery"
       THEN /\ resp' = [resp EXCEPT !.status = Written(StatusInternalServerError)]
            /\ IF errorTemplateName # "" /\ errorTemplate = "nil"
               THEN /\ frames' = Pop(Recording(frames, Top,
                                               StatusInternalServerError))
                    /\ phase' = IF Top = 1 THEN "crashed" ELSE "panic"
               ELSE ReturnFrom(Recording(frames, Top, StatusInternalServerError))
       ELSE /\ frames' = Pop(frames)
            /\ phase' = IF Top = 1 THEN "crashed" ELSE "panic"
            /\ UNCHANGED resp
    /\ UNCHANGED <<chain, built, rl, uuids, entered, req, trace, passed, saw, logs,
                   clock, limiter, instances, extras>>

\* server.SetErrorTemplate(tpl, name); main calls it before the server
\* listens.
SetErrorTemplate(tpl, name) ==
    /\ page = "idle"
    /\ errorTemplate' = tpl
    /\ errorTemplateName' = name
    /\ UNCHANGED <<writer, urlPath, asked, page, core, files, serving, bearer, views>>

NextChain ==
    \/ \E m \in Methods : \E id \in ClientIds : \E a \in LiveAddrs :
          \E t \in {clock, MaxTime} : \E d \in Doings : Receive(m, id, a, t, d)
    \/ CORS
    \/ RateLimit
    \/ Recovery
    \/ RequestID
    \/ Logging
    \/ Handler
    \/ Resume
    \/ Unwind
    \/ entered = 0 /\ \E tpl \in {"nil", "ok"} : SetErrorTemplate(tpl, "error")

SpecChain == InitChain /\ [][NextChain]_vars

\* =================================================== error pages, steps
\* A request for the path reaches a handler, which may set a Content-Type
\* and may send a status of its own before the error is rendered.
Respond(path, type, started) ==
    /\ page \in {"idle", "rendered", "panicked"}
    /\ urlPath' = path
    /\ writer' = IF started
                 THEN [WriteHeader(NewWriter(type), StatusOK)
                          EXCEPT !.calls = <<>>, !.begun = TRUE]
                 ELSE NewWriter(type)
    /\ asked' = 0
    /\ page' = "open"
    /\ UNCHANGED <<errorTemplate, errorTemplateName,
                   core, files, serving, bearer, views>>

\* One of BadRequest, TooManyRequests, InternalServerError is called on the
\* response.
ErrorPage(code) ==
    /\ page = "open"
    /\ LET r == Rendered(writer, urlPath, code, errorTemplate,
                         errorTemplateName)
       IN  /\ writer' = r.w
           /\ page' = IF r.panicked THEN "panicked" ELSE "rendered"
    /\ asked' = code
    /\ UNCHANGED <<errorTemplate, errorTemplateName, urlPath,
                   core, files, serving, bearer, views>>

NextErrors ==
    \/ \E tpl \in {"nil", "ok", "undefined", "failing"},
          name \in {"", "error"} : SetErrorTemplate(tpl, name)
    \/ \E path \in ErrorPaths, type \in {"", "application/json"},
          started \in BOOLEAN : Respond(path, type, started)
    \/ \E code \in {StatusBadRequest, StatusTooManyRequests,
                    StatusInternalServerError} : ErrorPage(code)

SpecErrors == Init /\ [][NextErrors]_vars

\* ========================================================= config, steps
\* c.SetFilename(path).
SetFilename(path) ==
    /\ alive
    /\ filename' = path
    /\ call' = [op |-> "SetFilename", arg |-> path, err |-> ""]
    /\ UNCHANGED <<conf, disk, alive, core, pages, serving, bearer, views>>

\* The program changes the configuration through the pointer c.Get()
\* returns.
Get(v) ==
    /\ alive
    /\ conf' = v
    /\ call' = [op |-> "Get", arg |-> <<>>, err |-> ""]
    /\ UNCHANGED <<filename, disk, alive, core, pages, serving, bearer, views>>

\* Someone else writes or removes a file: its content becomes none (the
\* file does not exist), the encoding of a value, text that is not JSON, or
\* JSON of the wrong shape.
Disturb(path, content) ==
    /\ alive
    /\ disk' = [disk EXCEPT ![path] = content]
    /\ call' = [op |-> "", arg |-> path, err |-> ""]
    /\ UNCHANGED <<filename, conf, alive, core, pages, serving, bearer, views>>

\* c.Load(path).  err = "" is Go's nil error.
LoadFile(path) ==
    /\ alive
    /\ LET b == IF path = <<>> THEN "none" ELSE disk[path]
           err == IF b = "none" THEN "read"
                  ELSE IF b \in Encodable THEN "" ELSE "decode"
       IN  /\ conf' = IF b \in Encodable THEN b
                     ELSE IF b = "mistyped" THEN "partial" ELSE conf
           /\ filename' = IF err = "" THEN path ELSE filename
           /\ call' = [op |-> "Load", arg |-> path, err |-> err]
    /\ UNCHANGED <<disk, alive, core, pages, serving, bearer, views>>

\* The body of c.SaveAs(name): the filename and the files after it, and its
\* result, given whether os.MkdirAll succeeds and how os.WriteFile ends
\* ("ok", "fail" with the file untouched, "torn" with the file truncated).
\* err = "fatal" is log.Fatalf: the process exits, nothing is returned.
Saving(name, made_, written) ==
    LET err == IF conf \notin Encodable THEN "encode"
               ELSE IF Dir(name) # <<".">> /\ ~made_ THEN "fatal"
               ELSE IF name = <<>> \/ written # "ok" THEN "write" ELSE ""
    IN  [filename |-> IF err = "" THEN name ELSE filename,
         disk |-> IF err = "" THEN [disk EXCEPT ![name] = conf]
                  ELSE IF err = "write" /\ name # <<>> /\ written = "torn"
                  THEN [disk EXCEPT ![name] = "garbage"]
                  ELSE disk,
         err |-> err]

\* c.SaveAs(name).
SaveAs(name) ==
    /\ alive
    /\ \E made_ \in BOOLEAN, written \in {"ok", "fail", "torn"} :
           LET s == Saving(name, made_, written)
           IN  /\ filename' = s.filename
               /\ disk' = s.disk
               /\ alive' = (s.err # "fatal")
               /\ call' = [op |-> "SaveAs", arg |-> name, err |-> s.err]
    /\ UNCHANGED <<conf, core, pages, serving, bearer, views>>

\* Faulty variant: an empty filename is passed on to SaveAs.
SaveUnguarded ==
    /\ alive
    /\ \E made_ \in BOOLEAN, written \in {"ok", "fail", "torn"} :
           LET s == Saving(filename, made_, written)
           IN  /\ filename' = s.filename
               /\ disk' = s.disk
               /\ alive' = (s.err # "fatal")
               /\ call' = [op |-> "Save", arg |-> <<>>, err |-> s.err]
    /\ UNCHANGED <<conf, core, pages, serving, bearer, views>>
\* c.Save().
Save ==
    /\ alive
    /\ IF filename = <<>>
       THEN /\ call' = [op |-> "Save", arg |-> <<>>,
                        err |-> "ErrNoFilename"]
            /\ UNCHANGED <<filename, disk, alive>>
       ELSE \E made_ \in BOOLEAN, written \in {"ok", "fail", "torn"} :
                LET s == Saving(filename, made_, written)
                IN  /\ filename' = s.filename
                    /\ disk' = s.disk
                    /\ alive' = (s.err # "fatal")
                    /\ call' = [op |-> "Save", arg |-> <<>>,
                                err |-> s.err]
    /\ UNCHANGED <<conf, core, pages, serving, bearer, views>>

NextConfig ==
    \/ \E path \in FilePaths : SetFilename(path)
    \/ \E v \in Encodable \cup {"unencodable"} : Get(v)
    \/ \E path \in FilePaths \ {<<>>},
          content \in Encodable \cup {"none", "garbage", "mistyped"} :
           Disturb(path, content)
    \/ \E path \in FilePaths : LoadFile(path)
    \/ \E name \in FilePaths : SaveAs(name)
    \/ Save

SpecConfig == Init /\ [][NextConfig]_vars

\* ========================================================= server, steps
\* server/server.go: one call of Run or RunWithContext.
\* s.Run() is called: the goroutine is started, the signals are routed to
\* quit.
Run ==
    /\ stage = "idle"
    /\ mode' = "Run"
    /\ stage' = "select"
    /\ UNCHANGED <<serverErrors, quit, ctxDone, took, shut, result, order,
                   core, pages, files, bearer, views>>

\* s.RunWithContext(ctx, shutdownTimeout) is called.
RunWithContext ==
    /\ stage = "idle"
    /\ mode' = "RunWithContext"
    /\ stage' = "select"
    /\ UNCHANGED <<serverErrors, quit, ctxDone, took, shut, result, order,
                   core, pages, files, bearer, views>>

\* The goroutine: ListenAndServe returns err, which is sent on
\* serverErrors (capacity 1, one send).  It returns ErrServerClosed once the
\* server has been shut down, by Shutdown below or by another caller of
\* s.Shutdown.
ListenAndServe(err) ==
    /\ stage # "idle"
    /\ serverErrors = <<>>
    /\ took.case # "serverErrors"
    /\ shut.called => err = "ErrServerClosed"
    /\ serverErrors' = <<err>>
    /\ order' = Append(order, err)
    /\ UNCHANGED <<mode, stage, quit, ctxDone, took, shut, result,
                   core, pages, files, bearer, views>>

\* The context is cancelled, or SIGINT/SIGTERM is delivered: quit has
\* capacity 1, a signal that finds it full is dropped.
Interrupt(kind) ==
    /\ stage \in {"idle", "select"}
    /\ IF kind = "cancel"
       THEN /\ mode # "Run"
            /\ ~ctxDone
            /\ ctxDone' = TRUE
            /\ quit' = quit
       ELSE /\ stage = "select"
            /\ quit = <<>>
            /\ quit' = <<kind>>
            /\ ctxDone' = ctxDone
    /\ order' = Append(order, kind)
    /\ UNCHANGED <<mode, stage, serverErrors, took, shut, result,
                   core, pages, files, bearer, views>>

\* The select statement: one of the cases that can proceed is taken, any
\* of them when several can.  took keeps what the statement found.
Select ==
    /\ stage = "select"
    /\ \/ /\ serverErrors # <<>>
          /\ took' = [case |-> "serverErrors", done |-> ctxDone,
                      quit |-> quit, order |-> order,
                      got |-> serverErrors[1]]
          /\ serverErrors' = <<>>
          /\ quit' = quit
          /\ IF serverErrors[1] # "ErrServerClosed"
             THEN /\ result' = "server error: other"
                  /\ stage' = "returned"
             ELSE IF mode = "Run"
             THEN /\ result' = "nil"
                  /\ stage' = "returned"
             ELSE /\ result' = result
                  /\ stage' = "shutdown"
       \/ /\ mode = "RunWithContext"
          /\ ctxDone
          /\ took' = [case |-> "ctx.Done", done |-> ctxDone,
                      quit |-> quit, order |-> order, got |-> ""]
          /\ UNCHANGED <<serverErrors, quit, result>>
          /\ stage' = "shutdown"
       \/ /\ quit # <<>>
          /\ took' = [case |-> "quit", done |-> ctxDone,
                      quit |-> quit, order |-> order, got |-> ""]
          /\ quit' = <<>>
          /\ UNCHANGED <<serverErrors, result>>
          /\ stage' = "shutdown"
    /\ UNCHANGED <<mode, ctxDone, shut, order, core, pages, files, bearer, views>>

\* Faulty variant: the result of Shutdown is dropped.
ShutdownErrorDropped(err) ==
    /\ stage = "shutdown"
    /\ shut' = [called |-> TRUE,
                bound |-> IF mode = "Run" THEN "30s" ELSE "shutdownTimeout",
                err |-> err]
    /\ result' = "nil"
    /\ stage' = "returned"
    /\ UNCHANGED <<mode, serverErrors, quit, ctxDone, took, order,
                   core, pages, files, bearer, views>>
\* s.httpServer.Shutdown(ctx) under a context with the timeout, and the
\* return that follows it.  err is what Shutdown returns: nil, or the
\* context's error when the timeout passes first.
Shutdown(err) ==
    /\ stage = "shutdown"
    /\ shut' = [called |-> TRUE,
                bound |-> IF mode = "Run" THEN "30s" ELSE "shutdownTimeout",
                err |-> err]
    /\ result' = IF err = "nil" THEN "nil" ELSE "server shutdown error"
    /\ stage' = "returned"
    /\ UNCHANGED <<mode, serverErrors, quit, ctxDone, took, order,
                   core, pages, files, bearer, views>>

NextServer ==
    \/ Run
    \/ RunWithContext
    \/ \E err \in {"ErrServerClosed", "other"} : ListenAndServe(err)
    \/ \E kind \in {"cancel", "SIGINT", "SIGTERM"} : Interrupt(kind)
    \/ Select
    \/ \E err \in {"nil", "deadline"} : Shutdown(err)

SpecServer == Init /\ [][NextServer]_vars

\* ========================================================= bearer, steps
\* The handler of BearerContext() serves a request with header h and
\* context in.
BearerContext(h, in) ==
    /\ variant' = "token"
    /\ authz' = h
    /\ came' = in
    /\ parsed' = ""
    /\ went' = IF BearerToken(h).found
               THEN [in EXCEPT !.token = <<BearerToken(h).token>>]
               ELSE in
    /\ nexts' = 1
    /\ UNCHANGED <<core, pages, files, serving, views>>

\* Faulty variant: the token is stored although the parser failed.
BearerContextTypedKeepsToken(h, in, ok) ==
    /\ variant' = "typed"
    /\ authz' = h
    /\ came' = in
    /\ parsed' = IF ~BearerToken(h).found THEN "" ELSE IF ok THEN "nil"
                 ELSE "error"
    /\ went' = IF BearerToken(h).found
               THEN [in EXCEPT !.token = <<BearerToken(h).token>>,
                               !.typed = IF ok THEN <<BearerToken(h).token>>
                                         ELSE @]
               ELSE in
    /\ nexts' = 1
    /\ UNCHANGED <<core, pages, files, serving, views>>
\* The handler of BearerContextTyped(parser) serves a request; ok is
\* whether parser(token) returns a nil error.  The claims it returns are
\* modelled by the token they were parsed from.
BearerContextTyped(h, in, ok) ==
    /\ variant' = "typed"
    /\ authz' = h
    /\ came' = in
    /\ parsed' = IF ~BearerToken(h).found THEN "" ELSE IF ok THEN "nil"
                 ELSE "error"
    /\ went' = IF BearerToken(h).found /\ ok
               THEN [in EXCEPT !.typed = <<BearerToken(h).token>>,
                               !.token = <<BearerToken(h).token>>]
               ELSE in
    /\ nexts' = 1
    /\ UNCHANGED <<core, pages, files, serving, views>>

\* The handler of BearerContextMap(parser) serves a request.
BearerContextMap(h, in, ok) ==
    /\ variant' = "map"
    /\ authz' = h
    /\ came' = in
    /\ parsed' = IF ~BearerToken(h).found THEN "" ELSE IF ok THEN "nil"
                 ELSE "error"
    /\ went' = IF BearerToken(h).found /\ ok
               THEN [in EXCEPT !.map = <<BearerToken(h).token>>,
                               !.token = <<BearerToken(h).token>>]
               ELSE in
    /\ nexts' = 1
    /\ UNCHANGED <<core, pages, files, serving, views>>

\* A request comes with the empty context, or with one an outer bearer
\* middleware has made.
NextBearer ==
    \E h \in Authorizations,
       in \in { EmptyCtx,
                [EmptyCtx EXCEPT !.token = << <<"o">> >>],
                [EmptyCtx EXCEPT !.token = << <<"o">> >>,
                                 !.map = << <<"o">> >>] } :
        \/ BearerContext(h, in)
        \/ \E ok \in BOOLEAN : BearerContextTyped(h, in, ok)
        \/ \E ok \in BOOLEAN : BearerContextMap(h, in, ok)

SpecBearer == Init /\ [][NextBearer]_vars

\* ====================================================== templates, steps
\* LoadTemplates(dir) on directory d: its error ("" is nil) and the Views
\* of the set it returns.  A view is "nil", "view" (the file parsed on its
\* own) or "view+layouts".  With layouts, the clone and the parse assign a
\* tpl declared by := inside the if block; the tpl stored in Views is the
\* outer one, still nil.
LoadTemplates(d) ==
    /\ tree' = d
    /\ LET html == {n \in ViewNames : /\ d.files[n] \in {"good", "bad"}
                                      /\ Ext(n) = <<".", "h", "t", "m", "l">>}
       IN  IF ~d.readable
           THEN loaded' = "failed to read template directory" /\ Views' = <<>>
           ELSE IF \E n \in html : d.files[n] = "bad"
           THEN loaded' = "failed to parse template" /\ Views' = <<>>
           ELSE /\ loaded' = ""
                /\ Views' = [n \in html |->
                                IF d.layouts = "ok" THEN "nil" ELSE "view"]
    /\ looked' = [name |-> <<>>, tpl |-> "nil", err |-> ""]
    /\ UNCHANGED <<core, pages, files, serving, bearer>>

\* ts.Get(name) on the set a successful LoadTemplates returned.
GetView(name) ==
    /\ loaded = ""
    /\ looked' = IF name \in DOMAIN Views
                 THEN [name |-> name, tpl |-> Views[name], err |-> ""]
                 ELSE [name |-> name, tpl |-> "nil",
                       err |-> "template not found"]
    /\ UNCHANGED <<Views, loaded, tree, core, pages, files, serving, bearer>>

NextTemplates ==
    \/ \E d \in TemplateDirs : LoadTemplates(d)
    \/ \E name \in ViewNames : GetView(name)

SpecTemplates == Init /\ [][NextTemplates]_vars

\* ============================================================== claims
Rejections == { RejectedNewClientCapacityExceeded,
                RejectedRequestLimitExceeded,
                RejectedMalformedClientIdentity }

\* C1: among the requests of one client key that reach the counter between
\* two clears, the Nth is Allowed iff N <= MaxRequests and is rejected as
\* RejectedRequestLimitExceeded iff N > MaxRequests; the request that makes
\* the count MaxRequests + 1 is the first one rejected.
C1_NthAllowedIffWithinLimit ==
    \A p \in Procs :
        outcome[p] \in {Allowed, RejectedRequestLimitExceeded} =>
            /\ nth[p] >= 1
            /\ outcome[p] = Allowed <=> nth[p] <= c.MaxRequests
            /\ outcome[p] = RejectedRequestLimitExceeded <=> nth[p] > c.MaxRequests

\* A client's request MaxRequests was allowed and its next one was the
\* first to be rejected.
C1_Witness ==
    \E p, q \in Procs :
        /\ p # q
        /\ SplitHostPort(addr[p]).host = SplitHostPort(addr[q]).host
        /\ outcome[p] = Allowed /\ nth[p] = c.MaxRequests
        /\ outcome[q] = RejectedRequestLimitExceeded /\ nth[q] = c.MaxRequests + 1

\* C2: when the table holds MaxClients keys at a request's capacity check,
\* a request from a key not in the table is rejected as
\* RejectedNewClientCapacityExceeded and the table stays as it is, while a
\* request from a key in the table passes the check, has its own counter
\* raised by one and is judged against that counter alone.
C2_FullTableRejectsOnlyNewKeys ==
    [][\A p \in Procs :
        /\ ( /\ pc[p] = "admit" /\ pc'[p] # "admit"
             /\ SplitHostPort(addr[p]).err = ""
             /\ MapLen(hits) = c.MaxClients )
           => IF MapHas(hits, SplitHostPort(addr[p]).host)
              THEN pc'[p] = "load" /\ outcome'[p] = Pending /\ hits' = hits
              ELSE /\ pc'[p] = "full"
                   /\ outcome'[p] = RejectedNewClientCapacityExceeded
                   /\ hits' = hits
        /\ ( /\ pc[p] = "store" /\ pc'[p] # "store"
             /\ MapLen(hits) = c.MaxClients /\ MapHas(hits, host[p]) )
           => /\ hits' = [hits EXCEPT ![host[p]] = @ + 1]
              /\ count'[p] = hits[host[p]] + 1
        /\ ( pc[p] = "limit" /\ pc'[p] # "limit" )
           => outcome'[p] = IF count[p] > c.MaxRequests
                            THEN RejectedRequestLimitExceeded ELSE Allowed
      ]_vars

\* A new client has just been turned away from a full table.
C2_Witness ==
    \E p \in Procs :
        /\ pc[p] = "full"
        /\ MapLen(hits) = c.MaxClients
        /\ ~MapHas(hits, host[p])
        /\ outcome[p] = RejectedNewClientCapacityExceeded

\* C3: the counter table never holds more than MaxClients keys.
C3_TableBounded == MapLen(hits) <= c.MaxClients

\* The table is full and a client has been rejected for it.
C3_Witness ==
    /\ MapLen(hits) = c.MaxClients
    /\ \E p \in Procs : outcome[p] = RejectedNewClientCapacityExceeded

AllDone == \A p \in Procs : pc[p] = "done"
NumWith(o) == Cardinality({p \in Procs : outcome[p] = o})

\* C4 as stated: NProcs concurrent requests of one client against
\* MaxRequests = NProcs - 1 end with exactly NProcs - 1 Allowed and
\* exactly one rejected, under every interleaving.
C4_BurstRejectsExactlyOne ==
    AllDone =>
        /\ NumWith(Allowed) = NProcs - 1
        /\ Cardinality({p \in Procs : outcome[p] \in Rejections}) = 1

\* C4, amended: the same, provided no clear of the table discards the
\* count of one of these requests (they are all counted in one window).
C4_BurstRejectsExactlyOneInOneWindow ==
    (AllDone /\ dropped = 0) =>
        /\ NumWith(Allowed) = NProcs - 1
        /\ NumWith(RejectedRequestLimitExceeded) = 1

\* All requests of the burst are over, no count was discarded, and the one
\* rejected was the last to be counted.
C4_Witness ==
    /\ AllDone
    /\ dropped = 0
    /\ \E p \in Procs :
           outcome[p] = RejectedRequestLimitExceeded /\ nth[p] = NProcs

\* C5: between mu.Lock() and mu.Unlock() a request holds the mutex alone,
\* from the expiry check through the clear, the lookup and the increment,
\* and no other request changes the table or the reset instant in between:
\* what the request finds is what it saw when it took the mutex, changed
\* by itself only.
C5_OneAtomicUnit ==
    \A p \in Procs :
        InCritical(p) =>
            /\ mu = p
            /\ pre[p].taken
            /\ \A q \in Procs \ {p} : ~InCritical(q)
            /\ hits = IF didReset[p] THEN EmptyMap ELSE pre[p].hits
            /\ reset = IF didReset[p] THEN now[p] + c.Window ELSE pre[p].reset
            /\ pc[p] = "store" => old[p] = MapGet(hits, host[p])

\* A request is in the middle of hits[host]++ while another one waits for
\* the mutex.
C5_Witness ==
    \E p, q \in Procs :
        /\ pc[p] = "store"
        /\ pc[q] = "lock"
        /\ host[p] = SplitHostPort(addr[q]).host

\* C6: the expiry check clears iff now is strictly after reset; a clear
\* leaves an empty table and reset = now + Window; otherwise both stay;
\* and the request's admission has not been evaluated yet.
C6_ResetIffStrictlyAfter ==
    [][\A p \in Procs :
        (pc[p] = "window" /\ pc'[p] # "window") =>
            /\ pc'[p] = "admit"
            /\ outcome'[p] = Pending /\ host'[p] = <<>> /\ count'[p] = 0
            /\ IF now[p] > reset
               THEN hits' = EmptyMap /\ reset' = now[p] + c.Window
               ELSE hits' = hits /\ reset' = reset
      ]_vars

\* A request that came after the window's end has cleared a table that
\* held counts.
C6_Witness ==
    \E p \in Procs :
        /\ pc[p] = "admit"
        /\ didReset[p]
        /\ pre[p].hits # EmptyMap
        /\ hits = EmptyMap
        /\ reset = now[p] + c.Window

\* C7 as stated: of the requests in flight that each read a time later
\* than the same value of reset, at most one clears the table.
C7_OneClearPerExpiredWindow ==
    \A p, q \in Procs :
        ( /\ p # q
          /\ InFlight(p) /\ InFlight(q)
          /\ seen[p] = seen[q]
          /\ now[p] > seen[p] /\ now[q] > seen[q] )
        => ~(didReset[p] /\ didReset[q])

\* An address without a colon has no host:port form.
NoPort(a) == \A i \in 1..Len(a) : a[i] # ":"

\* C8 as stated: a request whose RemoteAddr cannot be split is rejected as
\* malformed and leaves the table and reset as they were when it took the
\* mutex.
C8_MalformedLeavesTableAlone ==
    [][\A p \in Procs :
        (pc[p] = "admit" /\ pc'[p] # "admit" /\ NoPort(addr[p])) =>
            /\ pc'[p] = "bad"
            /\ outcome'[p] = RejectedMalformedClientIdentity
            /\ hits' = pre[p].hits
            /\ reset' = pre[p].reset
      ]_vars

\* C8, amended: such a request is rejected as malformed, inserts no key and
\* changes no count; the table and reset are as they were when it took the
\* mutex unless its time is after reset, in which case the table has been
\* cleared and reset is its time plus Window.
C8_MalformedOnlyExpires ==
    [][\A p \in Procs :
        (pc[p] = "admit" /\ pc'[p] # "admit" /\ NoPort(addr[p])) =>
            /\ pc'[p] = "bad"
            /\ outcome'[p] = RejectedMalformedClientIdentity
            /\ IF now[p] > pre[p].reset
               THEN hits' = EmptyMap /\ reset' = now[p] + c.Window
               ELSE hits' = pre[p].hits /\ reset' = pre[p].reset
      ]_vars

\* A malformed request that came after the window's end has been rejected,
\* and the counts the table held are gone.
C8_Witness ==
    \E p \in Procs :
        /\ pc[p] = "bad"
        /\ outcome[p] = RejectedMalformedClientIdentity
        /\ didReset[p]
        /\ hits = EmptyMap
        /\ dropped > 0

\* C9: a rejected request never reaches next; when its handler has
\* returned, the error renderer has been called once, with 400 for a
\* malformed identity and with 429 for a capacity or over-limit rejection.
C9_RejectedStopsAtLimiter ==
    \A p \in Procs :
        outcome[p] \in Rejections =>
            /\ nextCalls[p] = <<>>
            /\ pc[p] = "done" =>
                   /\ rendered[p] = << IF outcome[p] = RejectedMalformedClientIdentity
                                       THEN 400 ELSE 429 >>
                   /\ status[p] = rendered[p][1]

\* A capacity rejection has been rendered.
C9_Witness ==
    \E p \in Procs :
        /\ pc[p] = "done"
        /\ outcome[p] = RejectedNewClientCapacityExceeded
        /\ rendered[p] = <<429>>
        /\ nextCalls[p] = <<>>

\* C10: an Allowed request has had next called exactly once, with its own
\* request and response writer, and the limiter has rendered no error and
\* written no status for it.
C10_AllowedPassesOnce ==
    \A p \in Procs :
        outcome[p] = Allowed =>
            /\ nextCalls[p] = << [w |-> p, r |-> addr[p]] >>
            /\ rendered[p] = <<>>
            /\ status[p] = 0

\* A request was allowed and handed to next.
C10_Witness ==
    \E p \in Procs :
        /\ pc[p] = "done"
        /\ outcome[p] = Allowed
        /\ Len(nextCalls[p]) = 1

\* Outcomes of the first n returned requests.
Outcomes(n) == [i \in 1..n |-> log[i].outcome]
\* The request was issued before the first window had elapsed.
InFirstWindow(e) == e.at <= 0 + c.Window
\* The first three requests came from client A within the first window.
ThreeFromA ==
    /\ Len(log) >= 3
    /\ \A i \in 1..3 : log[i].addr = ClientA /\ InFirstWindow(log[i])

\* C11: with MaxRequests 2 and MaxClients 1, of three requests of client A in
\* the first window the first two are Allowed and the third is
\* RejectedRequestLimitExceeded; a request of client B that follows in the same
\* window is RejectedNewClientCapacityExceeded; and the first request issued
\* after the window has elapsed is Allowed, whoever sends it, its client then
\* being the only key of the table, with count 1.
C11_ScenarioOutcomes ==
    c = ScenarioPolicy =>
        /\ ThreeFromA =>
               Outcomes(3) = <<Allowed, Allowed, RejectedRequestLimitExceeded>>
        /\ (ThreeFromA /\ Len(log) >= 4 /\ log[4].addr = ClientB
                /\ InFirstWindow(log[4])) =>
               log[4].outcome = RejectedNewClientCapacityExceeded
        /\ \A n \in 1..Len(log) :
               (~InFirstWindow(log[n]) /\ \A i \in 1..(n - 1) : InFirstWindow(log[i])) =>
                   /\ log[n].outcome = Allowed
                   /\ (n = Len(log) /\ pc[1] = "done") =>
                          hits = MapPut(EmptyMap, SplitHostPort(log[n].addr).host, 1)

\* The whole scenario has run: A three times and B once in the first window,
\* then B after it, and B holds the single slot.
C11_Witness ==
    /\ c = ScenarioPolicy
    /\ Len(log) = 5
    /\ ThreeFromA
    /\ log[4].addr = ClientB /\ InFirstWindow(log[4])
    /\ log[5].addr = ClientB /\ ~InFirstWindow(log[5])
    /\ Outcomes(5) = <<Allowed, Allowed, RejectedRequestLimitExceeded,
                       RejectedNewClientCapacityExceeded, Allowed>>
    /\ hits = MapPut(EmptyMap, <<"b">>, 1)

\* C12: every count stored in the table is at least 1.
C12_CountsAtLeastOne == \A k \in DOMAIN hits : hits[k] >= 1

\* A key has just been inserted with count 1 beside a key counted before.
C12_Witness ==
    \E p \in Procs :
        /\ pc[p] = "limit"
        /\ count[p] = 1
        /\ MapGet(hits, host[p]) = 1
        /\ \E k \in DOMAIN hits : k # host[p]

\* The step with which request p leaves the critical section after its
\* client identity was extracted.
LeavesCounted(p) == pc[p] = "store" /\ pc'[p] = "limit"
LeavesUncounted(p) == pc[p] = "admit" /\ pc'[p] = "full"

\* C13 as stated: a request whose identity was extracted leaves the critical
\* section with a table that differs from the one it found when it took the
\* mutex, in every outcome.
C13_EveryExtractedRequestMutates ==
    [][\A p \in Procs :
          (LeavesCounted(p) \/ LeavesUncounted(p)) => hits' # pre[p].hits]_vars

\* C13 amended: a request that passes the capacity check adds one to the count
\* of its key and changes nothing else of the table; a request rejected for
\* capacity leaves the table as its expiry check left it, and as it found it
\* when it took the mutex if it cleared nothing.
C13_OnlyCountedRequestsMutate ==
    [][\A p \in Procs :
          /\ LeavesCounted(p) =>
                 /\ hits' = MapPut(hits, host[p], MapGet(hits, host[p]) + 1)
                 /\ ~didReset[p] =>
                        hits' = MapPut(pre[p].hits, host[p],
                                       MapGet(pre[p].hits, host[p]) + 1)
          /\ LeavesUncounted(p) =>
                 /\ hits' = hits
                 /\ ~didReset[p] => hits' = pre[p].hits]_vars

\* A request has been rejected for capacity without clearing anything: the
\* table holds what it held before, and not the key of the request.
C13_Witness ==
    \E p \in Procs :
        /\ pc[p] = "full"
        /\ ~didReset[p]
        /\ hits # EmptyMap
        /\ host[p] \notin DOMAIN hits

\* C15: a step that does not start a new window removes no key from the
\* table and lowers no count.
C15_NoRemovalWithinWindow ==
    [][reset' = reset =>
          \A k \in DOMAIN hits : k \in DOMAIN hits' /\ hits'[k] >= hits[k]]_vars

\* A new client has been rejected for capacity in the first window and the
\* client tracked before is still tracked.
C15_Witness ==
    \E p \in Procs :
        /\ pc[p] = "done"
        /\ outcome[p] = RejectedNewClientCapacityExceeded
        /\ reset = 0 + c.Window
        /\ \E k \in DOMAIN hits : k # SplitHostPort(addr[p]).host /\ hits[k] >= 1

\* Positions from which the handler calls the error renderer or next.
Rendering(p) == pc[p] \in {"bad", "full", "limit"}

\* C17: a request about to call BadRequest, TooManyRequests or next does not
\* hold the mutex, and the mutex is held only inside the critical section.
C17_NoCallUnderLock ==
    \A p \in Procs :
        /\ Rendering(p) => mu # p
        /\ mu = p => InCritical(p)

\* A request is in its critical section while another has yet to render its
\* rejection or call next.
C17_Witness ==
    \E p \in Procs : \E q \in Procs :
        /\ Rendering(p)
        /\ InCritical(q)
        /\ mu = q

\* Returned requests of the client with key h that were Allowed and whose
\* clock readings lie in the interval from t to just before t + Window.
AllowedWithin(h, t) ==
    { i \in 1..Len(log) :
        /\ SplitHostPort(log[i].addr).host = h
        /\ log[i].outcome = Allowed
        /\ t <= log[i].at
        /\ log[i].at < t + c.Window }
Keys == { SplitHostPort(a).host : a \in {ClientA, ClientB} }

\* C14: when the requests are admitted in the order of their clock readings,
\* a client is Allowed at most 2 x MaxRequests requests in any interval
\* shorter than Window.
C14_AtMostTwiceTheLimit ==
    \A h \in Keys : \A t \in 0..MaxTime :
        Cardinality(AllowedWithin(h, t)) <= 2 * c.MaxRequests

\* A client has been Allowed 2 x MaxRequests requests in such an interval:
\* MaxRequests up to the end of one window and MaxRequests from the start of
\* the next.
C14_Witness ==
    \E h \in Keys : \E t \in 0..MaxTime :
        /\ Cardinality(AllowedWithin(h, t)) = 2 * c.MaxRequests
        /\ Cardinality({i \in AllowedWithin(h, t) : log[i].at <= 0 + c.Window})
               = c.MaxRequests
        /\ Cardinality({i \in AllowedWithin(h, t) : log[i].at > 0 + c.Window})
               = c.MaxRequests

FourOutcomes == { Allowed,
                  RejectedNewClientCapacityExceeded,
                  RejectedRequestLimitExceeded,
                  RejectedMalformedClientIdentity }

\* C18: under fair scheduling every request that has entered the limiter
\* returns with one of the four outcomes, having either called next once or
\* rendered one error; and a mutex that is held is released.
C18_EveryRequestDecided ==
    /\ \A p \in Procs :
           InFlight(p) ~> (pc[p] = "done" /\ outcome[p] \in FourOutcomes)
    /\ (mu # 0) ~> (mu = 0)
    /\ [](\A p \in Procs :
             pc[p] = "done" =>
                 /\ outcome[p] \in FourOutcomes
                 /\ Len(rendered[p]) + Len(nextCalls[p]) = 1
                 /\ mu # p)

\* A malformed request has been rejected and a request that locked after it
\* has been admitted.
C18_Witness ==
    \E p \in Procs : \E q \in Procs :
        /\ pc[p] = "done" /\ outcome[p] = RejectedMalformedClientIdentity
        /\ pc[q] = "done" /\ outcome[q] = Allowed
        /\ mu = 0

\* C16: every call of RateLimit has made exactly one set of variables; two
\* handlers use the same table and reset exactly when they were made from
\* the Middleware value of the same call; and the table a handler uses holds
\* the requests counted by all the handlers of its call since its last clear.
C16_OneTablePerCall ==
    /\ Len(made) = Len(through)
    /\ \A x \in wraps : \A y \in wraps : (x.mw = y.mw) <=> (x.env = y.env)
    /\ \A x \in wraps : made[x.env].hits = through[x.mw]

\* One handler of a call has rejected a client whose only earlier request
\* another handler of that call counted, while the table of another call
\* holds that client with its own count of 1.
C16_Witness ==
    /\ last.next = "static"
    /\ handled = 3
    /\ last.outcome = RejectedRequestLimitExceeded
    /\ \E y \in wraps :
           /\ y.mw # last.mw
           /\ MapGet(made[y.env].hits, SplitHostPort(last.addr).host) = 1
    /\ \E x \in wraps :
           /\ x.mw = last.mw
           /\ MapGet(made[x.env].hits, SplitHostPort(last.addr).host) = 2

\* The layers in the order of the wiring expression, the endpoint last.
Written_Order == built \o Endpoint
EndpointRan == Len(trace) > 0 /\ trace[Len(trace)] = "handler"

\* C19: the layers run in the order in which the wiring expression names
\* them, outermost first; the endpoint runs only after every middleware has
\* run and called next; and in the chain of main that order is CORS,
\* RateLimit, Recovery, RequestID, Logging, handler.
C19_OutermostRunsFirst ==
    /\ Len(trace) <= Len(Written_Order)
    /\ \A i \in 1..Len(trace) : trace[i] = Written_Order[i]
    /\ EndpointRan =>
           /\ trace = Written_Order
           /\ passed = 1..Len(built)
    /\ (built = ExampleWiring /\ EndpointRan) =>
           trace = <<"CORS", "RateLimit", "Recovery", "RequestID", "Logging", "handler">>

\* A request has gone through the whole chain of main, and the endpoint has
\* returned.
C19_Witness ==
    /\ built = ExampleWiring
    /\ phase = "done"
    /\ EndpointRan
    /\ passed = 1..5

\* C20 as stated: an identifier found in the context of one layer is the one
\* found in the context of every layer below it and in the X-Request-ID
\* response header, and an identifier sent in the X-Request-ID request header
\* is the only one any layer finds.
C20_IdentifierNeverOverwritten ==
    /\ \A i \in 1..Len(frames) : \A j \in 1..Len(frames) :
           (i < j /\ frames[i].ctx # NoId) => frames[j].ctx = frames[i].ctx
    /\ \A i \in 1..Len(frames) :
           frames[i].ctx # NoId => resp.rid = frames[i].ctx
    /\ req.rid # NoId =>
           /\ \A i \in 1..Len(frames) : frames[i].ctx \in {NoId, req.rid}
           /\ resp.rid \in {NoId, req.rid}
           /\ saw \in {NoId, req.rid}

\* C21: the policy of a RateLimit middleware has MaxRequests >= 1,
\* MaxClients >= 1 and Window > 0, whatever RateLimit was called with.
C21_PolicyPositive ==
    /\ c.MaxRequests >= 1
    /\ c.MaxClients >= 1
    /\ c.Window > 0

\* C22: called with no argument RateLimit uses 100 requests, 1000 clients and
\* 60 seconds; called with arguments it uses the first of them as it is.
C22_DefaultsOrFirst ==
    /\ given = <<>> =>
           c = [MaxRequests |-> 100, MaxClients |-> 1000, Window |-> 60]
    /\ given # <<>> => c = given[1]

\* RateLimit was called with two different configurations and has served a
\* request under the first.
C22_Witness ==
    /\ Len(given) = 2
    /\ given[1] # given[2]
    /\ c = given[1]
    /\ pc[1] = "done"
    /\ outcome[1] = Allowed

\* The request has left the chain.
Served == phase \in {"done", "crashed"}
\* Frames of the layer m that the request has entered.
Entered(m) == {i \in 1..Len(trace) : trace[i] = m}
Panics == req.does \in {"panic", "late"}

\* C23: when a request has left the chain, Logging has written one log entry
\* for every time the request entered it, whether the endpoint returned or
\* panicked, and each entry carries the status the endpoint wrote, 200 when
\* it wrote none.
C23_OneLogEntryPerRequest ==
    Served =>
        /\ Len(logs) = Cardinality(Entered("Logging"))
        /\ EndpointRan =>
               \A i \in 1..Len(logs) : logs[i].status = StatusOK

\* C24: a panic of the endpoint never reaches a frame above a Recovery the
\* request went through, and the response then has status 500, whether the
\* endpoint panicked before or after it wrote its own status.
C24_PanicBecomes500 ==
    /\ phase = "panic" => \A i \in Entered("Recovery") : i <= Top
    /\ (Served /\ EndpointRan /\ Panics /\ Entered("Recovery") # {}) =>
           /\ phase = "done"
           /\ resp.status = StatusInternalServerError

\* The paths of ErrorPaths that target a static asset: their last element
\* ends in one of the listed extensions, whatever the case of its letters.
C25_Assets ==
    { <<"/", "a", ".", "j", "s">>, <<"/", "A", ".", "J", "S">>,
      <<"/", "a", ".", "C", "s", "s">>,
      <<"/", "a", ".", "b", ".", "p", "n", "g">>, <<"/", ".", "x", "m", "l">> }
Chunks(rw) == {rw.body[i] : i \in 1..Len(rw.body)}
\* C25: once RenderError has been called with a code, it has passed that code
\* to WriteHeader on every path, and on a response not begun before that is
\* the status sent; the body holds HTML only if a template name is
\* configured and the path is not a static asset; for a static asset, or
\* with no template name, the call writes the code once and nothing else:
\* no body, no Content-Type in the header map nor in what it sent.
C25_StatusAlwaysPageSometimes ==
    page \in {"rendered", "panicked"} =>
        /\ writer.calls # <<>>
        /\ \A i \in 1..Len(writer.calls) : writer.calls[i] = asked
        /\ ~writer.begun => writer.status = asked
        /\ "html" \in Chunks(writer) =>
               errorTemplateName # "" /\ urlPath \notin C25_Assets
        /\ (urlPath \in C25_Assets \/ errorTemplateName = "") =>
               /\ writer.calls = <<asked>>
               /\ writer.body = <<>>
               /\ writer.header = ""
               /\ ~writer.begun => writer.sent = ""
C25_Witness ==
    /\ page = "rendered"
    /\ urlPath = <<"/", "A", ".", "J", "S">>
    /\ errorTemplateName = "error"
    /\ errorTemplate = "ok"
    /\ ~writer.begun
    /\ writer.status = StatusTooManyRequests
    /\ writer.body = <<>>

\* C26: a call of Save on a Config whose filename is empty returns
\* ErrNoFilename and leaves the filename, the configuration and every file
\* as they were; on a Config with a filename it ends as SaveAs of that
\* filename ends, for some outcome of the directory creation and the write.
C26_SaveGuarded ==
    [][call'.op = "Save" =>
          IF filename = <<>>
          THEN /\ call'.err = "ErrNoFilename"
               /\ UNCHANGED <<filename, conf, disk, alive>>
          ELSE \E made_ \in BOOLEAN, written \in {"ok", "fail", "torn"} :
                   LET s == Saving(filename, made_, written)
                   IN  /\ call'.err = s.err
                       /\ filename' = s.filename
                       /\ disk' = s.disk
                       /\ conf' = conf
                       /\ alive' = (s.err # "fatal")]_vars
C26_Witness ==
    /\ call.op = "Save"
    /\ call.err = "ErrNoFilename"
    /\ filename = <<>>
    /\ conf = "edited"
    /\ disk[<<"cfg.json">>] = "zero"
\* C27: a call of Load or SaveAs changes the filename only when it succeeds,
\* and then to the path it was given; a call that fails returns an error to
\* its caller (the process goes on) and leaves the filename as it was.
C27_FailuresReturned ==
    [][call'.op \in {"Load", "SaveAs"} =>
          /\ call'.err = "" => filename' = call'.arg
          /\ call'.err # "" => filename' = filename /\ alive']_vars


ShutdownDone(bound) ==
    /\ shut.called
    /\ shut.bound = bound
    /\ result = "nil" <=> shut.err = "nil"
\* C28 as stated: a returned RunWithContext that found the context
\* cancelled or a signal delivered has called Shutdown under
\* shutdownTimeout and returned nil iff Shutdown did; one whose
\* ListenAndServe failed before anything else happened has returned that
\* error and not called Shutdown; Run likewise for signals under its fixed
\* timeout, and without Shutdown, returning nil, on ErrServerClosed.
C28_ShutdownWheneverInterrupted ==
    stage = "returned" =>
        /\ (mode = "RunWithContext" /\ (took.done \/ took.quit # <<>>)) =>
               ShutdownDone("shutdownTimeout")
        /\ (mode = "Run" /\ took.quit # <<>>) => ShutdownDone("30s")
        /\ (took.order # <<>> /\ took.order[1] = "other") =>
               result = "server error: other" /\ ~shut.called
        /\ (mode = "Run" /\ took.order # <<>> /\ took.order[1] = "ErrServerClosed") =>
               result = "nil" /\ ~shut.called
\* C28: a returned RunWithContext whose select took the cancellation, a
\* signal or ErrServerClosed has called Shutdown under shutdownTimeout and
\* returned nil iff Shutdown did; one whose select took another error of
\* ListenAndServe has returned that error and not called Shutdown; Run
\* likewise for a signal under its fixed timeout and for another error, and
\* it has returned nil without Shutdown when its select took
\* ErrServerClosed.
C28_SelectDecides ==
    stage = "returned" =>
        /\ took.case = "ctx.Done" =>
               mode = "RunWithContext" /\ ShutdownDone("shutdownTimeout")
        /\ took.case = "quit" =>
               ShutdownDone(IF mode = "Run" THEN "30s" ELSE "shutdownTimeout")
        /\ (took.case = "serverErrors" /\ took.got = "other") =>
               result = "server error: other" /\ ~shut.called
        /\ (took.case = "serverErrors" /\ took.got = "ErrServerClosed") =>
               IF mode = "Run" THEN result = "nil" /\ ~shut.called
               ELSE ShutdownDone("shutdownTimeout")
C28_Witness ==
    /\ stage = "returned"
    /\ mode = "RunWithContext"
    /\ took.case = "ctx.Done"
    /\ took.order = <<"other", "cancel">>
    /\ shut.err = "deadline"
    /\ result = "server shutdown error"

\* C29: a request served by a bearer middleware has been passed to the next
\* handler exactly once; its context holds a token the middleware put there
\* only if the Authorization header starts with "bearer " in some mix of
\* upper and lower case; and when the parser returned an error the context
\* is the one the request came with, holding neither claims nor token if
\* that one held none.
C29_NeverRejects ==
    variant # "" =>
        /\ nexts = 1
        /\ went.token # came.token =>
               /\ Len(authz) >= 7
               /\ \A i \in 1..7 :
                      authz[i] \in <<{"b", "B"}, {"e", "E"}, {"a", "A"},
                                     {"r", "R"}, {"e", "E"}, {"r", "R"},
                                     {" "}>>[i]
        /\ parsed = "error" =>
               /\ went = came
               /\ came = EmptyCtx => went.token = <<>> /\ went.typed = <<>>
                                                      /\ went.map = <<>>
C29_Witness ==
    /\ variant = "typed"
    /\ authz = <<"b", "E", "a", "R", "e", "R", " ", "u">>
    /\ parsed = "error"
    /\ came = EmptyCtx
    /\ went = EmptyCtx
    /\ nexts = 1

\* C30: after LoadTemplates has returned without error every entry of
\* Views is a parsed template, not nil, and holds the layouts when the
\* directory has layout files; Get of a name in Views has returned that
\* template and a nil error, Get of another name an error.
C30_ViewsUsable ==
    loaded = "" =>
        /\ \A n \in DOMAIN Views :
               /\ Views[n] # "nil"
               /\ tree.layouts # "none" => Views[n] = "view+layouts"
        /\ (looked.name # <<>> /\ looked.name \in DOMAIN Views) =>
               looked.tpl # "nil" /\ looked.err = ""
        /\ (looked.name # <<>> /\ looked.name \notin DOMAIN Views) =>
               looked.err # ""

\* Requests of key k that have passed the capacity check and are about to
\* be added to hits[k], inside the critical section.
Counting(k) ==
    Cardinality({p \in Procs : pc[p] \in {"load", "store"} /\ host[p] = k})
\* C31: the keys of the counter table are the keys of which a request has
\* passed the capacity check since the last clear, and the count of each is
\* the number of those requests, but for the one that is between the check
\* and its increment; a request that returns, rejected or not, leaves the
\* count it added in place.
C31_CountsArePassedRequests ==
    /\ \A k \in DOMAIN hits \cup DOMAIN counted :
           MapGet(hits, k) + Counting(k) = MapGet(counted, k)
    /\ mu = 0 => DOMAIN hits = DOMAIN counted
C31_Witness ==
    \E p, q \in Procs :
        /\ pc[p] = "done" /\ outcome[p] = RejectedRequestLimitExceeded
        /\ pc[q] = "done" /\ outcome[q] = Allowed
        /\ hits = MapPut(EmptyMap, <<"a">>, c.MaxRequests + 1)
        /\ counted = hits

\* C32: no step makes reset smaller, and a step that changes it moves it
\* forward by more than Window, also when the request that clears the
\* counters read the clock before later requests did.
C32_ResetOnlyForward ==
    [][/\ reset' >= reset
       /\ reset' # reset => reset' > reset + c.Window]_vars
C32_Witness ==
    \E p \in Procs :
        /\ pc[p] = "admit"
        /\ didReset[p]
        /\ now[p] < clock
        /\ reset = now[p] + c.Window
        /\ reset > seen[p] + c.Window

\* C33: a step that leaves reset as it was, so none that clears the
\* counters, changes the table at one key at most, the key of the request
\* that takes the step and writes its count: no other key is added or
\* removed, no other count changes.
C33_OnlyOwnKeyChanges ==
    [][reset' = reset =>
          \A j \in DOMAIN hits \cup DOMAIN hits' :
              (MapHas(hits, j) # MapHas(hits', j)
                  \/ MapGet(hits, j) # MapGet(hits', j)) =>
                  \E p \in Procs : /\ pc[p] = "store"
                                    /\ pc'[p] = "limit"
                                    /\ host[p] = j]_vars
C33_Witness ==
    \E p, q \in Procs :
        /\ pc[p] = "limit"
        /\ host[p] = <<"a">>
        /\ seen[p] = reset
        /\ pc[q] = "done"
        /\ addr[q] = <<"b", ":", "1">>
        /\ outcome[q] = Allowed
        /\ hits = MapPut(MapPut(EmptyMap, <<"b">>, 1), <<"a">>, 1)

\* C34: once the handler of CORS has run for a request the response carries
\* the three Access-Control-Allow headers; for an OPTIONS request the status
\* is 204, CORS has not called next and no layer below it has run, so in
\* the chain of main the rate limiter has not run; for any other method
\* CORS has called next, and no layer runs twice.
C34_PreflightStopsAtCORS ==
    /\ Len(trace) <= Len(chain)
    /\ \A i \in 1..Len(trace) : trace[i] = chain[i]
    /\ \A i \in Entered("CORS") :
           /\ {"Access-Control-Allow-Origin", "Access-Control-Allow-Methods",
                "Access-Control-Allow-Headers"} \subseteq resp.headers
           /\ IF req.method = "OPTIONS"
              THEN /\ i \notin passed
                   /\ Len(trace) = i
                   /\ resp.status = StatusNoContent
                   /\ built = ExampleWiring => Entered("RateLimit") = {}
              ELSE i \in passed
C34_Witness ==
    /\ built = ExampleWiring
    /\ req.method = "OPTIONS"
    /\ phase = "done"
    /\ trace = <<"CORS">>
    /\ resp.status = StatusNoContent
    /\ entered = 2
    /\ MapSum(rl.hits) = 1

\* The error renderer panics: a template name is configured and the template
\* is nil.
RendererPanics == errorTemplateName # "" /\ errorTemplate = "nil"

\* C35: in the chain of main, CORS(RateLimit(Recovery(RequestID(Logging(
\* handler))))), a request the rate limiter rejects has entered CORS and
\* RateLimit only: no log entry is written, the response has no X-Request-ID
\* and no layer saw an identifier in the context, the response carries the
\* CORS headers and the status of the rejection; and when the renderer
\* panics in the limiter, no Recovery is on the stack, the panic leaves the
\* chain and the status is never turned into 500.
C35_RejectionSkipsInnerLayers ==
    (built = ExampleWiring /\ \E i \in Entered("RateLimit") : i \notin passed) =>
        /\ trace = <<"CORS", "RateLimit">>
        /\ logs = <<>>
        /\ resp.rid = NoId
        /\ saw = NoId
        /\ \A i \in 1..Len(frames) : frames[i].ctx = NoId
        /\ {"Access-Control-Allow-Origin", "Access-Control-Allow-Methods",
             "Access-Control-Allow-Headers"} \subseteq resp.headers
        /\ resp.status \in {StatusBadRequest, StatusTooManyRequests}
        /\ Entered("Recovery") = {}
        /\ phase \in {"return", "done"} <=> ~RendererPanics
        /\ phase \in {"panic", "crashed"} <=> RendererPanics
C35_Witness ==
    /\ built = ExampleWiring /\ trace = <<"CORS", "RateLimit">>
    /\ phase = "crashed" /\ RendererPanics
    /\ resp.status = StatusTooManyRequests /\ logs = <<>> /\ resp.rid = NoId
    /\ req.rid = <<"client">>

\* C36: whenever a template name is configured the template is not nil, so
\* RenderError never executes a nil template and no rendering of an error
\* page panics.
C36_TemplateNeverNil ==
    /\ errorTemplateName # "" => errorTemplate # "nil"
    /\ page # "panicked"

\* C37: the context a RequestID layer passes to next holds an identifier
\* that is not empty and is the X-Request-ID header of the request when
\* that header is not empty; the identifier the innermost RequestID entered
\* has passed on is the X-Request-ID header of the response; and a handler
\* no RequestID layer precedes reads the empty string from its context.
C37_ContextHoldsTheHeader ==
    /\ \A i \in Entered("RequestID") :
           i + 1 <= Len(frames) =>
               /\ GetRequestID(frames[i + 1].ctx) # <<>>
               /\ req.rid # NoId => GetRequestID(frames[i + 1].ctx) = req.rid
               /\ (\A j \in Entered("RequestID") : j <= i) =>
                      GetRequestID(frames[i + 1].ctx) = resp.rid
    /\ EndpointRan =>
           IF Entered("RequestID") = {}
           THEN saw = <<>>
           ELSE saw = resp.rid /\ saw # <<>> /\ (req.rid # NoId => saw = req.rid)
C37_Witness ==
    /\ built = ExampleWiring /\ req.rid = <<"client">>
    /\ phase = "call" /\ Len(trace) = 4 /\ trace[4] = "RequestID"
    /\ frames[5].ctx = <<"client">> /\ resp.rid = <<"client">>
====
